---- MODULE Spec2Model ----
(***************************************************************************)
(* The stock ledger and the tool-assignment ledger of the warehouse        *)
(* server (src/prisma/seed.ts, lines 69-1935: the increment-based server). *)
(*                                                                         *)
(* The persistence engine is PostgreSQL reached through Prisma:            *)
(*  - a statement outside $transaction commits on its own;                 *)
(*  - inside prisma.$transaction(async tx => ...) every write is private   *)
(*    to the unit of work until it commits, a throw rolls all of it back;  *)
(*  - UPDATE ... SET quantity = quantity + d takes the row lock, waits for *)
(*    a concurrent holder to finish, and is evaluated on the latest        *)
(*    committed value of the row (READ COMMITTED, the default level);      *)
(*  - a plain read sees the committed rows.                                *)
(* A handler is a process: one action per await that reads or writes rows  *)
(* other requests can see.  Rows created inside a unit of work are         *)
(* invisible until commit, so they are materialised by the commit step;    *)
(* SERIAL ids are the row's position in its table.                         *)
(***************************************************************************)
EXTENDS Integers, Sequences, FiniteSets, TLC

VARIABLES products, transactions, items, tools, assignments, names, req, base,
          started

vars == <<products, transactions, items, tools, assignments, names, req, base,
          started>>
ledgerTables == <<products, transactions, items>>
toolTables == <<tools, assignments>>

\* ---------------------------------------------------------------- bounds
MAX_STOCK == 65535
\* requests served in one behaviour of a one-at-a-time specification
MaxRequests == 2
MaxItemsPerMovement == 2

Requests == {1, 2}
\* request inputs
ProductIds == {1, 2}
Deltas == {5}
EditDeltas == {-5, 5, 8}
InitQtys == {0, 8, 65536}
SupplierIds == {1}
SupplierInputs == {1, 2}
DestinationInputs == {1, 2}
\* names a rename asks for: a new one, or none
NameInputs == {0, 101}
DestinationIds == {1}
WorkerIds == {1, 2}
Types == {"in", "out"}
ItemInputs == [productId : ProductIds, delta : Deltas]
ItemLists == UNION {[1..n -> ItemInputs] : n \in 1..MaxItemsPerMovement}
\* supplierId, destinationId and workerId of a movement's body: all three
\* resolve, or one of them names no row
ResolvingParties == [supplierId |-> 1, destinationId |-> 1, workerId |-> 1]
UnresolvedParties ==
  { [supplierId |-> 2, destinationId |-> 1, workerId |-> 1],
    [supplierId |-> 1, destinationId |-> 2, workerId |-> 1],
    [supplierId |-> 1, destinationId |-> 1, workerId |-> 3] }
Body(type, its, c) ==
  [type |-> type, its |-> its, supplierId |-> c.supplierId,
   destinationId |-> c.destinationId, workerId |-> c.workerId]
\* bodies the validation of the movement entry points turns away: a type other
\* than in|out, no items, a productId or a delta that is not positive
InvalidBodies ==
  { Body("move", <<[productId |-> 1, delta |-> 5]>>, ResolvingParties),
    Body("in", <<>>, ResolvingParties),
    Body("in", <<[productId |-> 0, delta |-> 5]>>, ResolvingParties),
    Body("out", <<[productId |-> 1, delta |-> 0]>>, ResolvingParties),
    Body("out", <<[productId |-> 1, delta |-> -5]>>, ResolvingParties) }
\* request bodies of POST /api/transactions and POST /api/transactions/bulk-adjust
MovementBodies ==
  {Body(t, l, ResolvingParties) : t \in Types, l \in ItemLists}
    \cup {Body(t, <<[productId |-> 1, delta |-> 5]>>, c) :
            t \in Types, c \in UnresolvedParties}
    \cup InvalidBodies
\* the bodies that list two items, over one product or two in either order
TwoItemBodies ==
  {Body(t, l, ResolvingParties) : t \in Types, l \in [1..2 -> ItemInputs]}
\* path parameter and body of POST /api/products/:id/adjust
AdjustBodies ==
  {Body(t, <<it>>, ResolvingParties) : t \in Types, it \in ItemInputs}
    \cup {Body(t, <<[productId |-> 1, delta |-> 5]>>, c) :
            t \in Types, c \in UnresolvedParties}
    \cup {b \in InvalidBodies : Len(b.its) = 1 /\ b.its[1].productId > 0}

\* ---------------------------------------------------------------- helpers
Abs(n) == IF n < 0 THEN -n ELSE n

RECURSIVE SeqSum(_)
SeqSum(s) == IF s = <<>> THEN 0 ELSE Head(s) + SeqSum(Tail(s))

RECURSIVE SetSum(_, _)
SetSum(S, f) ==
  IF S = {} THEN 0
  ELSE LET x == CHOOSE y \in S : TRUE IN f[x] + SetSum(S \ {x}, f)

RECURSIVE SortedSeq(_)
SortedSeq(S) ==
  IF S = {} THEN <<>>
  ELSE LET m == CHOOSE x \in S : \A y \in S : x <= y
       IN <<m>> \o SortedSeq(S \ {m})

\* const sign = type === 'out' ? -Math.abs(it.delta) : Math.abs(it.delta)
\* the magnitude is stored unsigned whatever the movement's type
SignedDeltaUnsigned(type, d) == Abs(d)
SignedDelta(type, d) == IF type = "out" THEN -Abs(d) ELSE Abs(d)

\* deltasPerProduct[it.productId] = sign: the last item of a product overwrites
DeltasPerProductLast(type, its, p) ==
  LET idx == {i \in 1..Len(its) : its[i].productId = p}
  IN IF idx = {} THEN 0
     ELSE SignedDelta(type, its[CHOOSE i \in idx : \A j \in idx : j <= i].delta)

\* deltasPerProduct[it.productId] = (deltasPerProduct[it.productId] || 0) + sign
DeltasPerProduct(type, its, p) ==
  SeqSum([i \in 1..Len(its) |->
            IF its[i].productId = p THEN SignedDelta(type, its[i].delta) ELSE 0])

\* productIds = Array.from(new Set(parsedItems.map(p => p.productId)))
ItemProductIds(its) == {its[i].productId : i \in 1..Len(its)}

\* for (const pidStr of Object.keys(deltasPerProduct)): the integer keys of an
\* object are enumerated in ascending order
\* (below: the rows are updated in the order the items list their products)
UpdateOrderAsListed(its) ==
  LET firsts == SortedSeq({i \in 1..Len(its) :
                             \A j \in 1..(i - 1) : its[j].productId # its[i].productId})
  IN [k \in 1..Len(firsts) |-> its[firsts[k]].productId]
UpdateOrder(its) == SortedSeq(ItemProductIds(its))

\* rows
ProductExists(p) == p \in DOMAIN products /\ products[p].exists
TransactionExists(t) == t \in DOMAIN transactions /\ transactions[t].live
ItemExists(i) == i \in DOMAIN items /\ items[i].live
NoItem == [live |-> FALSE, transactionId |-> 0, productId |-> 0, delta |-> 0]

\* the signed sum of the live line items of product p
LiveDeltaSum(its, p) ==
  SeqSum([i \in 1..Len(its) |->
            IF its[i].live /\ its[i].productId = p THEN its[i].delta ELSE 0])

\* ---------------------------------------------------------------- requests
NoQuantity == [given |-> FALSE, value |-> 0]
\* the user record the token resolves to: username, role and the value of
\* permissions['inventory:transact'] ("unset" when the key is absent)
NoUser == [username |-> "", role |-> "", transact |-> "unset"]
Users ==
  { [username |-> "axelerator", role |-> "worker", transact |-> "false"],
    [username |-> "other", role |-> "admin", transact |-> "unset"],
    [username |-> "other", role |-> "worker", transact |-> "false"],
    [username |-> "other", role |-> "worker", transact |-> "unset"],
    [username |-> "other", role |-> "manager", transact |-> "true"],
    [username |-> "other", role |-> "manager", transact |-> "unset"] }

IdleReq ==
  [op |-> "none", user |-> NoUser, pc |-> "idle", type |-> "", its |-> <<>>, txId |-> 0,
   itemId |-> 0, qty |-> 0, supplierId |-> 0, destinationId |-> 0, toolId |-> 0, workerId |-> 0,
   productId |-> 0, purge |-> FALSE, name |-> 0,
   rq |-> NoQuantity, snap |-> <<>>, cur |-> 0,
   todo |-> <<>>, locked |-> {}, newId |-> 0, result |-> "none"]

InFlight(r) == req[r].pc \notin {"idle", "done"}
Quiet == \A r \in Requests : ~InFlight(r)
LockedByOther(r, p) == \E s \in Requests \ {r} : p \in req[s].locked

Database ==
  [products |-> products, transactions |-> transactions, items |-> items,
   tools |-> tools, assignments |-> assignments, names |-> names]

\* A request enters the server.  Request 1 opens an episode when nothing is in
\* flight (base records the committed rows at that point); request 2 may enter
\* while request 1 is still in flight.
Begin(r, new) ==
  /\ started' = started + 1
  /\ IF r = 1
     THEN /\ Quiet
          /\ req' = [s \in Requests |->
                       IF s = r THEN [new EXCEPT !.user = req[r].user] ELSE IdleReq]
          /\ base' = Database
     ELSE /\ InFlight(1)
          /\ req[r].pc = "idle"
          /\ req' = [req EXCEPT ![r] = [new EXCEPT !.user = req[r].user]]
          /\ UNCHANGED base

\* the response is sent; the handler's locals and row locks are gone
Finished(rec, result) ==
  [IdleReq EXCEPT !.op = rec.op, !.user = rec.user, !.pc = "done",
                  !.type = rec.type,
                  !.its = rec.its, !.txId = rec.txId, !.itemId = rec.itemId,
                  !.qty = rec.qty, !.supplierId = rec.supplierId,
                  !.destinationId = rec.destinationId,
                  !.toolId = rec.toolId, !.workerId = rec.workerId, !.rq = rec.rq,
                  !.productId = rec.productId, !.purge = rec.purge,
                  !.name = rec.name,
                  !.result = result]
Respond(r, result) == req' = [req EXCEPT ![r] = Finished(req[r], result)]

\* the unit of work's increments stay although it threw
AbortKeepingIncrements(r, result) ==
  /\ Respond(r, result)
  /\ products' = [p \in DOMAIN products |->
                    IF p \in req[r].locked
                    THEN [products[p] EXCEPT !.quantity = req[r].snap[p]]
                    ELSE products[p]]
  /\ UNCHANGED <<transactions, items>>

\* the movement header is written outside the unit of work and stays
AbortKeepingHeader(r, result) ==
  /\ Respond(r, result)
  /\ transactions' = Append(transactions, [live |-> TRUE, type |-> req[r].type])
  /\ UNCHANGED <<products, items>>

\* a throw inside prisma.$transaction: every write of the unit of work is
\* rolled back and the catch block answers
Abort(r, result) ==
  /\ Respond(r, result)
  /\ UNCHANGED <<products, transactions, items>>

\* the check of the ceiling is missing
PostCheckNoCeiling(q) == IF q < 0 THEN "not_enough" ELSE "ok"
\* the check of the floor is missing
PostCheckNoFloor(q) == IF q > MAX_STOCK THEN "exceeds" ELSE "ok"
\* the floor is checked with <= instead of <
PostCheckOffByOne(q) ==
  IF q <= 0 THEN "not_enough" ELSE IF q > MAX_STOCK THEN "exceeds" ELSE "ok"

\* if (updated.quantity < 0) throw ...; if (updated.quantity > 65535) throw ...
PostCheck(q) ==
  IF q < 0 THEN "not_enough" ELSE IF q > MAX_STOCK THEN "exceeds" ELSE "ok"

\* read-modify-write: the quantity read by findMany plus d is written back
IncrementedFromRead(r, p, d) ==
  IF req[r].op \in {"transactions", "bulk"}
  THEN req[r].snap[p] + d
  ELSE products[p].quantity + d

\* data: { quantity: { increment: d } } on the locked row
Incremented(r, p, d) == products[p].quantity + d

\* supplierId ? ... findUnique({ where: { id: Number(supplierId) } }): no id given,
\* or the id of a supplier row
SupplierResolves(s) == s = 0 \/ s \in SupplierIds
\* name columns: product.name, supplier and location rows (name, deleted),
\* transaction.supplierName / destinationName, TransactionItem.productName,
\* each sequence aligned with the table whose column it is
NoName == 0
\* the name a product is created under (a name no other product has)
FirstName(id) == id
SupplierName(s) == IF s \in DOMAIN names.supplier THEN names.supplier[s].name ELSE NoName
DestinationName(d) ==
  IF d \in DOMAIN names.location THEN names.location[d].name ELSE NoName

\* if (destinationId) { tx.location.findUnique; if (!d) throw }
DestinationResolves(d) == d = 0 \/ d \in DestinationIds
\* if (workerId) { tx.worker.findUnique; if (!w) throw }
WorkerResolves(w) == w = 0 \/ w \in WorkerIds

\* ------------------------------------------------ POST /api/products
QuantityValid(q) == q >= 0 /\ q <= MAX_STOCK

StartCreateProduct(r) ==
  \E q \in InitQtys, s \in SupplierInputs :
    LET new == [IdleReq EXCEPT !.op = "createProduct", !.pc = "cp_create",
                               !.qty = q, !.supplierId = s]
    IN /\ Begin(r, IF QuantityValid(q) THEN new ELSE Finished(new, "bad_request"))
       /\ UNCHANGED <<ledgerTables, toolTables, names>>

\* const p = await prisma.product.create({ data: createData })
CreateProductRow(r) ==
  /\ req[r].pc = "cp_create"
  /\ products' = Append(products, [exists |-> TRUE, quantity |-> req[r].qty])
  /\ names' = [names EXCEPT !.product = Append(@, FirstName(Len(products) + 1))]
  /\ IF req[r].qty > 0
     THEN req' = [req EXCEPT ![r].pc = "cp_tx", ![r].newId = Len(products) + 1]
     ELSE Respond(r, "ok")
  /\ UNCHANGED <<transactions, items, base, started, toolTables>>

\* prisma.transaction.create for the initial stock; a supplierId that resolves
\* to no supplier violates transaction_supplierId_fkey, and the catch swallows it
CreateProductTransaction(r) ==
  /\ req[r].pc = "cp_tx"
  /\ IF SupplierResolves(req[r].supplierId)
     THEN /\ transactions' = Append(transactions, [live |-> TRUE, type |-> "in"])
          /\ names' = [names EXCEPT
                         !.supplierName = Append(@, SupplierName(req[r].supplierId)),
                         !.destinationName = Append(@, NoName),
                         !.supplierId = Append(@, req[r].supplierId),
                         !.destinationId = Append(@, 0)]
          /\ req' = [req EXCEPT ![r].pc = "cp_item", ![r].cur = Len(transactions) + 1]
     ELSE /\ Respond(r, "ok")
          /\ UNCHANGED <<transactions, names>>
  /\ UNCHANGED <<products, items, base, started, toolTables>>

CreateProductItem(r) ==
  /\ req[r].pc = "cp_item"
  /\ items' = Append(items, [live |-> TRUE, transactionId |-> req[r].cur,
                             productId |-> req[r].newId, delta |-> req[r].qty])
  /\ names' = [names EXCEPT !.productName = Append(@, names.product[req[r].newId])]
  /\ Respond(r, "ok")
  /\ UNCHANGED <<products, transactions, base, started, toolTables>>

\* ------------------------------------------------ movement creation
\* POST /api/transactions ("transactions"), POST /api/transactions/bulk-adjust
\* ("bulk"), POST /api/products/:id/adjust ("adjust")
ValidItemsAnyDelta(its) ==
  /\ Len(its) > 0
  /\ \A i \in 1..Len(its) : its[i].productId > 0
ValidItems(its) ==
  /\ Len(its) > 0
  /\ \A i \in 1..Len(its) : its[i].productId > 0 /\ its[i].delta > 0

\* the entry of POST /api/transactions and of bulk-adjust, for a body of bodies
ReceiveMovement(r, bodies) ==
  \E op \in {"transactions", "bulk"}, b \in bodies :
    LET new == [IdleReq EXCEPT !.op = op, !.pc = "mv_read", !.type = b.type,
                               !.its = b.its, !.supplierId = b.supplierId,
                               !.destinationId = b.destinationId,
                               !.workerId = b.workerId]
    IN /\ Begin(r, IF b.type \in Types /\ ValidItems(b.its)
                   THEN new ELSE Finished(new, "bad_request"))
       /\ UNCHANGED <<ledgerTables, toolTables, names>>

StartMovement(r) == ReceiveMovement(r, MovementBodies)

StartAdjust(r) ==
  \E b \in AdjustBodies :
    LET new == [IdleReq EXCEPT !.op = "adjust", !.pc = "mv_read", !.type = b.type,
                               !.its = b.its, !.supplierId = b.supplierId,
                               !.destinationId = b.destinationId,
                               !.workerId = b.workerId]
    IN /\ Begin(r, IF b.type \in Types /\ b.its[1].delta > 0
                   THEN new ELSE Finished(new, "bad_request"))
       /\ UNCHANGED <<ledgerTables, toolTables, names>>

\* the loop over Object.keys(deltasPerProduct) (ascending ids) that checks
\* prodMap[pid].quantity + deltasPerProduct[pid]; the first failure throws
PreCheck(type, its, snap) ==
  LET bad == {p \in ItemProductIds(its) :
                PostCheck(snap[p] + DeltasPerProduct(type, its, p)) # "ok"}
  IN IF bad = {} THEN "ok"
     ELSE LET p == CHOOSE x \in bad : \A y \in bad : x <= y
          IN PostCheck(snap[p] + DeltasPerProduct(type, its, p))

\* the reads that open the unit of work: tx.product.findMany and the not-found
\* loop (not in /adjust, which reads no product), the supplier, destination
\* and worker lookups (/adjust looks up no worker: its tx.transaction.create
\* fails on transaction_workerId_fkey and the catch answers 500), and (POST
\* /api/transactions only) the check of the net deltas against the quantities
\* just read
MovementRead(r) ==
  /\ req[r].pc = "mv_read"
  /\ LET ids == ItemProductIds(req[r].its)
         missing == IF req[r].op = "adjust" THEN {}
                    ELSE {p \in ids : ~ProductExists(p)}
         snap == [p \in {x \in ids : ProductExists(x)} |-> products[p].quantity]
         pre == IF req[r].op = "transactions"
                THEN PreCheck(req[r].type, req[r].its, snap) ELSE "ok"
     IN IF missing # {} THEN Respond(r, "product_not_found")
        ELSE IF ~SupplierResolves(req[r].supplierId)
        THEN Respond(r, "supplier_not_found")
        ELSE IF ~DestinationResolves(req[r].destinationId)
        THEN Respond(r, "destination_not_found")
        ELSE IF ~WorkerResolves(req[r].workerId)
        THEN Respond(r, IF req[r].op = "adjust" THEN "internal" ELSE "worker_not_found")
        ELSE IF pre # "ok" THEN Respond(r, pre)
        ELSE req' = [req EXCEPT ![r].pc = "mv_update", ![r].snap = snap,
                                ![r].todo = UpdateOrder(req[r].its)]
  /\ UNCHANGED <<products, transactions, items, base, started, toolTables, names>>

\* one turn of the loop of tx.product.update({ quantity: { increment } }): the
\* update waits for the row lock, then the returned quantity is checked
MovementUpdate(r) ==
  /\ req[r].pc = "mv_update"
  /\ LET p == Head(req[r].todo)
         d == DeltasPerProduct(req[r].type, req[r].its, p)
     IN /\ ~LockedByOther(r, p)
        /\ IF ~ProductExists(p) THEN Abort(r, "internal")
           ELSE IF PostCheck(Incremented(r, p, d)) # "ok"
           THEN Abort(r, PostCheck(Incremented(r, p, d)))
           ELSE /\ req' = [req EXCEPT ![r].todo = Tail(req[r].todo),
                                      ![r].locked = req[r].locked \cup {p},
                                      ![r].snap = [q \in DOMAIN req[r].snap \cup {p} |->
                                         IF q = p THEN Incremented(r, p, d)
                                         ELSE req[r].snap[q]],
                                      ![r].pc = IF Len(req[r].todo) = 1
                                                THEN "mv_commit" ELSE "mv_update"]
                /\ UNCHANGED <<products, transactions, items>>
  /\ UNCHANGED <<base, started, toolTables, names>>

\* the unit of work commits: header, one line item per listed item, and the
\* incremented quantities become visible together.  supplierName,
\* destinationName and productName are the names read inside the unit of work;
\* no handler that writes a name runs beside a movement in the specifications
\* below, so they are the names stored when it commits.
MovementCommit(r) ==
  /\ req[r].pc = "mv_commit"
  /\ LET t == Len(transactions) + 1
         its == req[r].its
     IN /\ products' = [p \in DOMAIN products |->
                          IF p \in req[r].locked
                          THEN [products[p] EXCEPT !.quantity = req[r].snap[p]]
                          ELSE products[p]]
        /\ transactions' = Append(transactions, [live |-> TRUE, type |-> req[r].type])
        /\ items' = items \o [i \in 1..Len(its) |->
                       [live |-> TRUE, transactionId |-> t,
                        productId |-> its[i].productId,
                        delta |-> SignedDelta(req[r].type, its[i].delta)]]
        /\ names' = [names EXCEPT
                       !.supplierName = Append(@, SupplierName(req[r].supplierId)),
                       !.destinationName = Append(@, DestinationName(req[r].destinationId)),
                       !.supplierId = Append(@, req[r].supplierId),
                       !.destinationId = Append(@, req[r].destinationId),
                       !.productName = @ \o [i \in 1..Len(its) |->
                                               names.product[its[i].productId]]]
  /\ Respond(r, "ok")
  /\ UNCHANGED <<base, started, toolTables>>

\* ------------------------------------------------ line-item handlers
SetQuantity(p, q) == [products EXCEPT ![p].quantity = q]

\* POST /api/transactions/:id/items
StartAddItem(r) ==
  \E t \in 1..(Len(transactions) + 1),
     it \in ItemInputs \cup {[productId |-> 1, delta |-> -5]} :
    /\ Begin(r, [IdleReq EXCEPT !.op = "addItem", !.pc = "ai_read", !.txId = t,
                                !.its = <<it>>])
    /\ UNCHANGED <<ledgerTables, toolTables, names>>

\* the checks made on the rows read before the unit of work
AddItemPreCheck(type, q, numericDelta) ==
  IF type = "out" /\ q + numericDelta < 0 THEN "not_enough"
  ELSE IF type = "in" /\ q + numericDelta > MAX_STOCK THEN "exceeds"
  ELSE "ok"

AddItemRead(r) ==
  /\ req[r].pc = "ai_read"
  /\ LET t == req[r].txId
         it == req[r].its[1]
     IN IF ~TransactionExists(t) \/ ~ProductExists(it.productId)
        THEN Respond(r, "not_found")
        ELSE IF it.delta <= 0 THEN Respond(r, "bad_request")
        ELSE LET type == transactions[t].type
                 pre == AddItemPreCheck(type, products[it.productId].quantity,
                                        SignedDelta(type, it.delta))
             IN IF pre # "ok" THEN Respond(r, pre)
                ELSE req' = [req EXCEPT ![r].pc = "ai_update", ![r].type = type]
  /\ UNCHANGED <<products, transactions, items, base, started, toolTables, names>>

\* tx.transactionItem.create, tx.product.update(increment), the checks on the
\* returned quantity; the catch answers 500 'internal error' to every throw
AddItemUpdate(r) ==
  /\ req[r].pc = "ai_update"
  /\ LET p == req[r].its[1].productId
         d == SignedDelta(req[r].type, req[r].its[1].delta)
     IN /\ ~LockedByOther(r, p)
        /\ IF ~TransactionExists(req[r].txId) \/ ~ProductExists(p)
              \/ PostCheck(Incremented(r, p, d)) # "ok"
           THEN Abort(r, "internal")
           ELSE /\ req' = [req EXCEPT ![r].pc = "ai_commit", ![r].locked = {p},
                                      ![r].cur = Incremented(r, p, d)]
                /\ UNCHANGED <<products, transactions, items>>
  /\ UNCHANGED <<base, started, toolTables, names>>

AddItemCommit(r) ==
  /\ req[r].pc = "ai_commit"
  /\ LET it == req[r].its[1]
     IN /\ products' = SetQuantity(it.productId, req[r].cur)
        /\ items' = Append(items, [live |-> TRUE, transactionId |-> req[r].txId,
                                   productId |-> it.productId,
                                   delta |-> SignedDelta(req[r].type, it.delta)])
        /\ names' = [names EXCEPT
                       !.productName = Append(@, names.product[it.productId])]
  /\ Respond(r, "ok")
  /\ UNCHANGED <<transactions, base, started, toolTables>>

\* DELETE /api/transactions/:id/items/:itemId
StartDeleteItem(r) ==
  \E t \in 1..(Len(transactions) + 1), i \in 1..(Len(items) + 1) :
    /\ Begin(r, [IdleReq EXCEPT !.op = "deleteItem", !.pc = "di_read", !.txId = t,
                                !.itemId = i])
    /\ UNCHANGED <<ledgerTables, toolTables, names>>

\* the item is deleted whatever movement the path names
DeleteItemReadAnyMovement(r) ==
  /\ req[r].pc = "di_read"
  /\ LET i == req[r].itemId
     IN IF ~ItemExists(i) THEN Respond(r, "not_found")
        ELSE req' = [req EXCEPT ![r].pc = "di_update",
                                ![r].snap = [delta |-> items[i].delta,
                                             productId |-> items[i].productId]]
  /\ UNCHANGED <<products, transactions, items, base, started, toolTables, names>>

\* prisma.transactionItem.findUnique({ include: { transaction, product } })
DeleteItemRead(r) ==
  /\ req[r].pc = "di_read"
  /\ LET i == req[r].itemId
     IN IF ~ItemExists(i) THEN Respond(r, "not_found")
        ELSE IF items[i].transactionId # req[r].txId THEN Respond(r, "wrong_movement")
        ELSE req' = [req EXCEPT ![r].pc = "di_update",
                                ![r].snap = [delta |-> items[i].delta,
                                             productId |-> items[i].productId]]
  /\ UNCHANGED <<products, transactions, items, base, started, toolTables, names>>

\* increment: -item.delta with the delta read before the unit of work, the
\* checks on the returned quantity, then tx.transactionItem.delete
DeleteItemUpdate(r) ==
  /\ req[r].pc = "di_update"
  /\ LET p == req[r].snap.productId
         d == -req[r].snap.delta
     IN IF p # 0 /\ d # 0
        THEN /\ ~LockedByOther(r, p)
             /\ IF ~ProductExists(p) \/ PostCheck(Incremented(r, p, d)) # "ok"
                   \/ ~ItemExists(req[r].itemId)
                THEN Abort(r, "internal")
                ELSE /\ req' = [req EXCEPT ![r].pc = "di_commit", ![r].locked = {p},
                                           ![r].cur = Incremented(r, p, d)]
                     /\ UNCHANGED <<products, transactions, items>>
        ELSE IF ~ItemExists(req[r].itemId) THEN Abort(r, "internal")
        ELSE /\ req' = [req EXCEPT ![r].pc = "di_commit"]
             /\ UNCHANGED <<products, transactions, items>>
  /\ UNCHANGED <<base, started, toolTables, names>>

\* the item is removed and the quantity is left as it was
DeleteItemCommitKeepsQuantity(r) ==
  /\ req[r].pc = "di_commit"
  /\ items' = [items EXCEPT ![req[r].itemId] = NoItem]
  /\ Respond(r, "ok")
  /\ UNCHANGED <<products, transactions, base, started, toolTables, names>>

DeleteItemCommit(r) ==
  /\ req[r].pc = "di_commit"
  /\ products' = IF req[r].locked = {} THEN products
                 ELSE SetQuantity(req[r].snap.productId, req[r].cur)
  /\ items' = [items EXCEPT ![req[r].itemId] = NoItem]
  /\ Respond(r, "ok")
  /\ UNCHANGED <<transactions, base, started, toolTables, names>>

\* PATCH /api/transactions/:id/items/:itemId
StartEditItem(r) ==
  \E t \in 1..(Len(transactions) + 1), i \in 1..(Len(items) + 1), d \in EditDeltas :
    /\ Begin(r, [IdleReq EXCEPT !.op = "editItem", !.pc = "ei_read", !.txId = t,
                                !.itemId = i, !.qty = d])
    /\ UNCHANGED <<ledgerTables, toolTables, names>>

\* the difference is taken the wrong way round
ActualDiffSwapped(numericDelta, curDelta) == curDelta - numericDelta

\* the new delta is applied without taking the old one back
ActualDiffForgetsOld(numericDelta, curDelta) == numericDelta

\* const actualDiff = numericDelta - cur.delta
ActualDiff(numericDelta, curDelta) == numericDelta - curDelta

\* the read before the unit of work and the check of item.product.quantity + diff
EditItemRead(r) ==
  /\ req[r].pc = "ei_read"
  /\ LET i == req[r].itemId
     IN IF ~ItemExists(i) THEN Respond(r, "not_found")
        ELSE IF items[i].transactionId # req[r].txId THEN Respond(r, "wrong_movement")
        ELSE IF req[r].qty <= 0 THEN Respond(r, "bad_request")
        ELSE LET type == transactions[items[i].transactionId].type
                 diff == SignedDelta(type, req[r].qty) - items[i].delta
                 p == items[i].productId
                 pre == IF p # 0 THEN PostCheck(products[p].quantity + diff) ELSE "ok"
             IN IF pre # "ok" THEN Respond(r, pre)
                ELSE req' = [req EXCEPT ![r].pc = "ei_cur", ![r].type = type]
  /\ UNCHANGED <<products, transactions, items, base, started, toolTables, names>>

\* const cur = await tx.transactionItem.findUnique(...) inside the unit of work
EditItemReload(r) ==
  /\ req[r].pc = "ei_cur"
  /\ LET i == req[r].itemId
     IN IF ~ItemExists(i) THEN Abort(r, "internal")
        ELSE /\ req' = [req EXCEPT ![r].pc = "ei_update",
                                   ![r].snap = [delta |-> items[i].delta,
                                                productId |-> items[i].productId]]
             /\ UNCHANGED <<products, transactions, items>>
  /\ UNCHANGED <<base, started, toolTables, names>>

\* the edit's unit of work without the checks on the returned quantity
EditItemUpdateUnchecked(r) ==
  /\ req[r].pc = "ei_update"
  /\ LET p == req[r].snap.productId
         d == ActualDiff(SignedDelta(req[r].type, req[r].qty), req[r].snap.delta)
     IN /\ p # 0
        /\ ~LockedByOther(r, p)
        /\ IF ~ProductExists(p) \/ ~ItemExists(req[r].itemId)
           THEN Abort(r, "internal")
           ELSE /\ req' = [req EXCEPT ![r].pc = "ei_commit", ![r].locked = {p},
                                      ![r].cur = Incremented(r, p, d)]
                /\ UNCHANGED <<products, transactions, items>>
  /\ UNCHANGED <<base, started, toolTables, names>>

\* increment: actualDiff, the checks on the returned quantity, then
\* tx.transactionItem.update({ delta: numericDelta })
EditItemUpdate(r) ==
  /\ req[r].pc = "ei_update"
  /\ LET p == req[r].snap.productId
         d == ActualDiff(SignedDelta(req[r].type, req[r].qty), req[r].snap.delta)
     IN IF p # 0
        THEN /\ ~LockedByOther(r, p)
             /\ IF ~ProductExists(p) \/ PostCheck(Incremented(r, p, d)) # "ok"
                   \/ ~ItemExists(req[r].itemId)
                THEN Abort(r, "internal")
                ELSE /\ req' = [req EXCEPT ![r].pc = "ei_commit", ![r].locked = {p},
                                           ![r].cur = Incremented(r, p, d)]
                     /\ UNCHANGED <<products, transactions, items>>
        ELSE IF ~ItemExists(req[r].itemId) THEN Abort(r, "internal")
        ELSE /\ req' = [req EXCEPT ![r].pc = "ei_commit"]
             /\ UNCHANGED <<products, transactions, items>>
  /\ UNCHANGED <<base, started, toolTables, names>>

EditItemCommit(r) ==
  /\ req[r].pc = "ei_commit"
  /\ products' = IF req[r].locked = {} THEN products
                 ELSE SetQuantity(req[r].snap.productId, req[r].cur)
  /\ items' = [items EXCEPT ![req[r].itemId].delta = SignedDelta(req[r].type, req[r].qty)]
  /\ Respond(r, "ok")
  /\ UNCHANGED <<transactions, base, started, toolTables, names>>

\* ------------------------------------------------ the tool ledger
WorkerInputs == {1, 2, 3}
ToolTotals == {0, 5}
NewTotals == {0, 2, 6}
AssignQtys == {0, 1, 3}
ReturnInputs == {NoQuantity} \cup [given : {TRUE}, value : {0, 2, 3}]

ToolExists(t) == t \in DOMAIN tools
\* the assignments of (tool, worker) with returnedAt = null
Outstanding(t, w) ==
  {a \in DOMAIN assignments :
     /\ assignments[a].toolId = t
     /\ assignments[a].workerId = w
     /\ ~assignments[a].returned}

\* POST /api/tools
StartCreateTool(r) ==
  \E n \in ToolTotals :
    LET new == [IdleReq EXCEPT !.op = "createTool", !.pc = "ct_create", !.qty = n]
    IN /\ Begin(r, IF n < 1 THEN Finished(new, "bad_request") ELSE new)
       /\ UNCHANGED <<ledgerTables, toolTables, names>>

CreateToolRow(r) ==
  /\ req[r].pc = "ct_create"
  /\ tools' = Append(tools, [totalQuantity |-> req[r].qty,
                             availableQuantity |-> req[r].qty])
  /\ Respond(r, "ok")
  /\ UNCHANGED <<ledgerTables, assignments, base, started, names>>

\* PATCH /api/tools/:id with a totalQuantity
StartPatchTool(r) ==
  \E t \in 1..(Len(tools) + 1), n \in NewTotals :
    LET new == [IdleReq EXCEPT !.op = "patchTool", !.pc = "pt_read", !.toolId = t,
                               !.qty = n]
    IN /\ Begin(r, IF n < 1 THEN Finished(new, "bad_request") ELSE new)
       /\ UNCHANGED <<ledgerTables, toolTables, names>>

\* the available units are taken for the issued ones
IssuedFromAvailable(tool) == tool.availableQuantity

\* const issued = currentTool.totalQuantity - currentTool.availableQuantity
Issued(tool) == tool.totalQuantity - tool.availableQuantity

\* the issued units are forgotten
PatchedAvailableAll(newTotal, issued) == newTotal

\* updateData.availableQuantity = newTotal - issued
PatchedAvailable(newTotal, issued) == newTotal - issued

PatchToolRead(r) ==
  /\ req[r].pc = "pt_read"
  /\ LET t == req[r].toolId
     IN IF ~ToolExists(t) THEN Respond(r, "not_found")
        ELSE IF req[r].qty < Issued(tools[t]) THEN Respond(r, "below_issued")
        ELSE req' = [req EXCEPT ![r].pc = "pt_write",
                       ![r].snap = [totalQuantity |-> req[r].qty,
                                    availableQuantity |->
                                      PatchedAvailable(req[r].qty, Issued(tools[t]))]]
  /\ UNCHANGED <<ledgerTables, toolTables, base, started, names>>

\* prisma.tool.update({ where: { id }, data: updateData })
PatchToolWrite(r) ==
  /\ req[r].pc = "pt_write"
  /\ tools' = [tools EXCEPT ![req[r].toolId] = req[r].snap]
  /\ Respond(r, "ok")
  /\ UNCHANGED <<ledgerTables, assignments, base, started, names>>

\* POST /api/workers/:workerId/assignTool/:toolId
StartAssignTool(r) ==
  \E w \in WorkerInputs, t \in 1..(Len(tools) + 1), n \in AssignQtys :
    /\ Begin(r, [IdleReq EXCEPT !.op = "assignTool", !.pc = "as_read", !.toolId = t,
                                !.workerId = w, !.qty = n])
    /\ UNCHANGED <<ledgerTables, toolTables, names>>

\* the reads and the checks made before the batch
AssignToolCheck(r) ==
  /\ req[r].pc = "as_read"
  /\ IF req[r].workerId \notin WorkerIds \/ ~ToolExists(req[r].toolId)
     THEN Respond(r, "not_found")
     ELSE IF req[r].qty < 1 THEN Respond(r, "bad_request")
     ELSE IF req[r].qty > tools[req[r].toolId].availableQuantity
     THEN Respond(r, "not_available")
     ELSE req' = [req EXCEPT ![r].pc = "as_tx"]
  /\ UNCHANGED <<ledgerTables, toolTables, base, started, names>>

\* the assignment is created and availableQuantity is not lowered
AssignToolCommitNoDecrement(r) ==
  /\ req[r].pc = "as_tx"
  /\ assignments' = Append(assignments,
                           [toolId |-> req[r].toolId, workerId |-> req[r].workerId,
                            quantity |-> req[r].qty, returned |-> FALSE])
  /\ Respond(r, "ok")
  /\ UNCHANGED <<ledgerTables, tools, base, started, names>>

\* prisma.$transaction([toolAssignment.create, tool.update(decrement)])
AssignToolCommit(r) ==
  /\ req[r].pc = "as_tx"
  /\ assignments' = Append(assignments,
                           [toolId |-> req[r].toolId, workerId |-> req[r].workerId,
                            quantity |-> req[r].qty, returned |-> FALSE])
  /\ tools' = [tools EXCEPT ![req[r].toolId].availableQuantity = @ - req[r].qty]
  /\ Respond(r, "ok")
  /\ UNCHANGED <<ledgerTables, base, started, names>>

\* POST /api/workers/:workerId/unassignTool/:toolId
StartUnassignTool(r) ==
  \E w \in WorkerInputs, t \in 1..(Len(tools) + 1), q \in ReturnInputs :
    /\ Begin(r, [IdleReq EXCEPT !.op = "unassignTool", !.pc = "un_read", !.toolId = t,
                                !.workerId = w, !.rq = q])
    /\ UNCHANGED <<ledgerTables, toolTables, names>>

\* a request above the assigned quantity is cut down to it
QtyToReturnCapped(rq, assigned) ==
  IF rq.given /\ rq.value # 0 /\ rq.value <= assigned THEN rq.value ELSE assigned

\* the requested quantity is ignored: everything is returned
QtyToReturnEverything(rq, assigned) == assigned

\* const qtyToReturn = returnQuantity ? Number(returnQuantity) : assignment.quantity
QtyToReturn(rq, assigned) == IF rq.given /\ rq.value # 0 THEN rq.value ELSE assigned

\* the reads (findFirst of an assignment with returnedAt: null) and the checks
UnassignToolCheck(r) ==
  /\ req[r].pc = "un_read"
  /\ LET t == req[r].toolId
         w == req[r].workerId
     IN IF w \notin WorkerIds \/ ~ToolExists(t) THEN Respond(r, "not_found")
        ELSE IF Outstanding(t, w) = {} THEN Respond(r, "not_assigned")
        ELSE \E a \in Outstanding(t, w) :
               LET q == QtyToReturn(req[r].rq, assignments[a].quantity)
               IN IF q < 1 THEN Respond(r, "bad_request")
                  ELSE IF q > assignments[a].quantity THEN Respond(r, "exceeds_assigned")
                  ELSE req' = [req EXCEPT ![r].pc = "un_tx",
                                 ![r].snap = [assignment |-> a, quantity |-> q,
                                              all |-> q = assignments[a].quantity]]
  /\ UNCHANGED <<ledgerTables, toolTables, base, started, names>>

\* the batch: returnedAt = now (all returned) or quantity decrement (partial),
\* and availableQuantity increment
UnassignToolCommit(r) ==
  /\ req[r].pc = "un_tx"
  /\ LET a == req[r].snap.assignment
         q == req[r].snap.quantity
     IN /\ assignments' = IF req[r].snap.all
                          THEN [assignments EXCEPT ![a].returned = TRUE]
                          ELSE [assignments EXCEPT ![a].quantity = @ - q]
        /\ tools' = [tools EXCEPT ![req[r].toolId].availableQuantity = @ + q]
  /\ Respond(r, "ok")
  /\ UNCHANGED <<ledgerTables, base, started, names>>

\* ------------------------------------------------ catalogue handlers
NoProduct == [exists |-> FALSE, quantity |-> 0]

\* DELETE /api/products/:id and DELETE /api/products/:id?purge=true
StartDeleteProduct(r) ==
  \E p \in ProductIds, purge \in BOOLEAN :
    /\ Begin(r, [IdleReq EXCEPT !.op = "deleteProduct", !.pc = "dp_read",
                                !.productId = p, !.purge = purge])
    /\ UNCHANGED <<ledgerTables, toolTables, names>>

\* const product = await prisma.product.findUnique({ where: { id } })
DeleteProductRead(r) ==
  /\ req[r].pc = "dp_read"
  /\ IF ~ProductExists(req[r].productId) THEN Respond(r, "not_found")
     ELSE req' = [req EXCEPT ![r].pc = IF req[r].purge THEN "dp_purge" ELSE "dp_delete"]
  /\ UNCHANGED <<ledgerTables, toolTables, names, base, started>>

\* tx.transactionItem.deleteMany({ where: { productId: id } })
ItemsWithout(p) ==
  [i \in DOMAIN items |->
     IF items[i].live /\ items[i].productId = p THEN NoItem ELSE items[i]]

\* the movements that held a line item of the product
MovementsOf(p) ==
  {items[i].transactionId : i \in {j \in DOMAIN items :
                                      items[j].live /\ items[j].productId = p}}

\* every movement that held a line item of the product loses its header
EmptiedHeadersAll(p) == MovementsOf(p)

\* for (const tid of ids): count the remaining items, delete the header at 0
EmptiedHeaders(p) ==
  {t \in MovementsOf(p) :
     \A i \in DOMAIN items :
       ~(ItemsWithout(p)[i].live /\ ItemsWithout(p)[i].transactionId = t)}

\* the purge's unit of work: line items, emptied headers, the product row
PurgeProduct(r) ==
  /\ req[r].pc = "dp_purge"
  /\ LET p == req[r].productId
     IN /\ ~LockedByOther(r, p)
        /\ IF ~ProductExists(p) THEN Abort(r, "internal")
           ELSE /\ items' = ItemsWithout(p)
                /\ transactions' = [t \in DOMAIN transactions |->
                                      IF t \in EmptiedHeaders(p)
                                      THEN [transactions[t] EXCEPT !.live = FALSE]
                                      ELSE transactions[t]]
                /\ products' = [products EXCEPT ![p] = NoProduct]
                /\ Respond(r, "ok")
  /\ UNCHANGED <<toolTables, names, base, started>>

\* await prisma.product.delete({ where: { id } }): the row goes, and
\* TransactionItem_productId_fkey (ON DELETE SET NULL) clears productId on
\* the product's line items
DeleteProductRow(r) ==
  /\ req[r].pc = "dp_delete"
  /\ LET p == req[r].productId
     IN /\ ~LockedByOther(r, p)
        /\ IF ~ProductExists(p) THEN Abort(r, "internal")
           ELSE /\ products' = [products EXCEPT ![p] = NoProduct]
                /\ items' = [i \in DOMAIN items |->
                               IF items[i].productId = p
                               THEN [items[i] EXCEPT !.productId = 0]
                               ELSE items[i]]
                /\ Respond(r, "ok")
                /\ UNCHANGED transactions
  /\ UNCHANGED <<toolTables, names, base, started>>

\* PATCH /api/products/:id { name }
StartPatchProduct(r) ==
  \E p \in ProductIds, n \in NameInputs :
    /\ Begin(r, [IdleReq EXCEPT !.op = "patchProduct", !.pc = "pp_write",
                                !.productId = p, !.name = n])
    /\ UNCHANGED <<ledgerTables, toolTables, names>>

PatchProduct(r) ==
  /\ req[r].pc = "pp_write"
  /\ LET p == req[r].productId
         n == req[r].name
     IN IF ~ProductExists(p) THEN Respond(r, "not_found") /\ UNCHANGED names
        ELSE IF n = NoName THEN Respond(r, "bad_request") /\ UNCHANGED names
        ELSE IF n = names.product[p] THEN Respond(r, "ok") /\ UNCHANGED names
        ELSE IF \E q \in DOMAIN products \ {p} :
                  ProductExists(q) /\ names.product[q] = n
        THEN Respond(r, "bad_request") /\ UNCHANGED names
        ELSE /\ names' = [names EXCEPT !.product[p] = n]
             /\ Respond(r, "ok")
  /\ UNCHANGED <<ledgerTables, toolTables, base, started>>

\* PATCH /api/suppliers/:id { name }
StartPatchSupplier(r) ==
  \E s \in SupplierInputs, n \in NameInputs :
    /\ Begin(r, [IdleReq EXCEPT !.op = "patchSupplier", !.pc = "ps_write",
                                !.supplierId = s, !.name = n])
    /\ UNCHANGED <<ledgerTables, toolTables, names>>

\* the rename also rewrites the supplierName of the movements that carry the
\* old name
PatchSupplierRewritingMovements(r) ==
  /\ req[r].pc = "ps_write"
  /\ LET s == req[r].supplierId
         n == req[r].name
     IN IF s \notin DOMAIN names.supplier
        THEN Respond(r, "not_found") /\ UNCHANGED names
        ELSE /\ names' = [names EXCEPT
                            !.supplier[s].name = n,
                            !.supplierName = [t \in DOMAIN names.supplierName |->
                               IF names.supplierName[t] = names.supplier[s].name
                               THEN n ELSE names.supplierName[t]]]
             /\ Respond(r, "ok")
  /\ UNCHANGED <<ledgerTables, toolTables, base, started>>

\* findUnique, the search for another supplier of that name, supplier.update
PatchSupplier(r) ==
  /\ req[r].pc = "ps_write"
  /\ LET s == req[r].supplierId
         n == req[r].name
     IN IF s \notin DOMAIN names.supplier
        THEN Respond(r, "not_found") /\ UNCHANGED names
        ELSE IF n # NoName /\ n # names.supplier[s].name
                /\ \E o \in DOMAIN names.supplier \ {s} : names.supplier[o].name = n
        THEN Respond(r, "bad_request") /\ UNCHANGED names
        ELSE /\ names' = [names EXCEPT !.supplier[s].name = n]
             /\ Respond(r, "ok")
  /\ UNCHANGED <<ledgerTables, toolTables, base, started>>

\* DELETE /api/suppliers/:id: supplier.update({ data: { deleted: true } })
StartDeleteSupplier(r) ==
  \E s \in SupplierInputs :
    /\ Begin(r, [IdleReq EXCEPT !.op = "deleteSupplier", !.pc = "ds_write",
                                !.supplierId = s])
    /\ UNCHANGED <<ledgerTables, toolTables, names>>

DeleteSupplier(r) ==
  /\ req[r].pc = "ds_write"
  /\ LET s == req[r].supplierId
     IN IF s \notin DOMAIN names.supplier
        THEN Respond(r, "internal") /\ UNCHANGED names
        ELSE /\ names' = [names EXCEPT !.supplier[s].deleted = TRUE]
             /\ Respond(r, "ok")
  /\ UNCHANGED <<ledgerTables, toolTables, base, started>>

\* PATCH /api/locations/:id { name }
StartPatchLocation(r) ==
  \E d \in DestinationInputs, n \in NameInputs :
    /\ Begin(r, [IdleReq EXCEPT !.op = "patchLocation", !.pc = "pl_write",
                                !.destinationId = d, !.name = n])
    /\ UNCHANGED <<ledgerTables, toolTables, names>>

PatchLocation(r) ==
  /\ req[r].pc = "pl_write"
  /\ LET d == req[r].destinationId
         n == req[r].name
     IN IF d \notin DOMAIN names.location
        THEN Respond(r, "not_found") /\ UNCHANGED names
        ELSE IF n # NoName /\ n # names.location[d].name
                /\ \E o \in DOMAIN names.location \ {d} : names.location[o].name = n
        THEN Respond(r, "bad_request") /\ UNCHANGED names
        ELSE /\ names' = [names EXCEPT !.location[d].name = n]
             /\ Respond(r, "ok")
  /\ UNCHANGED <<ledgerTables, toolTables, base, started>>

\* DELETE /api/locations/:id: location.update({ data: { deleted: true } })
StartDeleteLocation(r) ==
  \E d \in DestinationInputs :
    /\ Begin(r, [IdleReq EXCEPT !.op = "deleteLocation", !.pc = "dl_write",
                                !.destinationId = d])
    /\ UNCHANGED <<ledgerTables, toolTables, names>>

DeleteLocation(r) ==
  /\ req[r].pc = "dl_write"
  /\ LET d == req[r].destinationId
     IN IF d \notin DOMAIN names.location
        THEN Respond(r, "internal") /\ UNCHANGED names
        ELSE /\ names' = [names EXCEPT !.location[d].deleted = TRUE]
             /\ Respond(r, "ok")
  /\ UNCHANGED <<ledgerTables, toolTables, base, started>>

\* ------------------------------------------------ GET /api/reports/export
\* exportToCsv('transactions'): the supplier and destination columns of the row
\* of movement t, t.supplier?.name || t.supplierName || '' over the joined rows
ExportedSupplierName(t) ==
  LET s == names.supplierId[t]
  IN IF s \in DOMAIN names.supplier /\ names.supplier[s].name # NoName
     THEN names.supplier[s].name
     ELSE names.supplierName[t]
ExportedDestinationName(t) ==
  LET d == names.destinationId[t]
  IN IF d \in DOMAIN names.location /\ names.location[d].name # NoName
     THEN names.location[d].name
     ELSE names.destinationName[t]

\* ------------------------------------------------ authorization
\* authenticateToken: the token's payload becomes the request's user
Authenticate(r) ==
  /\ req[r].pc \in {"idle", "done"}
  /\ \E u \in Users : req' = [req EXCEPT ![r] = [IdleReq EXCEPT !.user = u]]
  /\ UNCHANGED <<ledgerTables, toolTables, names, base, started>>

\* authorizePermission(permission), for the user u the request carries
AuthorizePermission(u, permission) ==
  IF u.username = "axelerator" THEN TRUE
  ELSE IF u.role = "admin" THEN TRUE
  ELSE IF permission = "inventory:transact" /\ u.role = "worker"
  THEN u.transact # "false"
  ELSE permission = "inventory:transact" /\ u.transact = "true"

\* the 403 authorizePermission answers; the handler is not entered
Forbidden(r) ==
  \E o \in {"transactions", "bulk", "adjust"} :
    /\ Begin(r, Finished([IdleReq EXCEPT !.op = o], "forbidden"))
    /\ UNCHANGED <<ledgerTables, toolTables, names>>

\* the routes as they are declared: the movement routes behind
\* authorizePermission('inventory:transact'), the others behind the token only
AuthorizedStart(r) ==
  \/ /\ AuthorizePermission(req[r].user, "inventory:transact")
     /\ (StartMovement(r) \/ StartAdjust(r))
  \/ /\ ~AuthorizePermission(req[r].user, "inventory:transact")
     /\ Forbidden(r)
  \/ StartCreateProduct(r)
  \/ StartAddItem(r)
  \/ StartDeleteItem(r)
  \/ StartEditItem(r)

\* ------------------------------------------------ src/src/server.ts
\* The earlier server.  Its transaction row carries productId and delta
\* itself; the row is kept here as a header with its one line.

\* POST /api/products/:id/adjust of src/src/server.ts
StartLegacyAdjust(r) ==
  \E b \in AdjustBodies :
    LET new == [IdleReq EXCEPT !.op = "legacyAdjust", !.pc = "la_read",
                               !.type = b.type, !.its = b.its,
                               !.supplierId = b.supplierId,
                               !.destinationId = b.destinationId,
                               !.workerId = b.workerId]
    IN /\ Begin(r, IF b.type \in Types THEN new ELSE Finished(new, "bad_request"))
       /\ UNCHANGED <<ledgerTables, toolTables, names>>

\* prisma.product.findUnique before the unit of work, and the checks made on
\* the quantity it returns
LegacyAdjustRead(r) ==
  /\ req[r].pc = "la_read"
  /\ LET p == req[r].its[1].productId
         d == SignedDelta(req[r].type, req[r].its[1].delta)
     IN IF ~ProductExists(p) THEN Respond(r, "not_found")
        ELSE IF req[r].its[1].delta <= 0 THEN Respond(r, "bad_request")
        ELSE IF req[r].type = "out" /\ products[p].quantity + d < 0
        THEN Respond(r, "not_enough")
        ELSE IF req[r].type = "in" /\ products[p].quantity + d > MAX_STOCK
        THEN Respond(r, "exceeds")
        ELSE req' = [req EXCEPT ![r].pc = "la_commit",
                                ![r].snap = [quantity |-> products[p].quantity]]
  /\ UNCHANGED <<ledgerTables, toolTables, names, base, started>>

\* the unit of work: the counterparty lookups, tx.transaction.create, and
\* tx.product.update({ data: { quantity: newQty } }) with
\* newQty = product.quantity + numericDelta of the read made before it
LegacyAdjustCommit(r) ==
  /\ req[r].pc = "la_commit"
  /\ LET p == req[r].its[1].productId
         d == SignedDelta(req[r].type, req[r].its[1].delta)
     IN IF ~SupplierResolves(req[r].supplierId)
           \/ ~DestinationResolves(req[r].destinationId)
           \/ ~WorkerResolves(req[r].workerId) \/ ~ProductExists(p)
        THEN Abort(r, "internal") /\ UNCHANGED names
        ELSE /\ products' = SetQuantity(p, req[r].snap.quantity + d)
             /\ transactions' = Append(transactions,
                                       [live |-> TRUE, type |-> req[r].type])
             /\ items' = Append(items, [live |-> TRUE,
                                        transactionId |-> Len(transactions) + 1,
                                        productId |-> p, delta |-> d])
             /\ names' = [names EXCEPT
                            !.supplierName = Append(@, SupplierName(req[r].supplierId)),
                            !.destinationName =
                               Append(@, DestinationName(req[r].destinationId)),
                            !.supplierId = Append(@, req[r].supplierId),
                            !.destinationId = Append(@, req[r].destinationId),
                            !.productName = Append(@, names.product[p])]
             /\ Respond(r, "ok")
  /\ UNCHANGED <<toolTables, base, started>>

\* The tool rows of src/src/server.ts carry a status ('available' by default)
\* and the ToolAssignment rows a returnedAt, kept here as the flag returned.
LegacyToolIds == {1, 2, 3}

\* the open assignments matching a findFirst({ where: { ..., returnedAt: null } })
OpenOfTool(t) ==
  {a \in DOMAIN assignments : assignments[a].toolId = t /\ ~assignments[a].returned}
OpenOfWorker(w) ==
  {a \in DOMAIN assignments : assignments[a].workerId = w /\ ~assignments[a].returned}
First(S) == CHOOSE a \in S : \A b \in S : a <= b

\* POST /api/tools
StartLegacyCreateTool(r) ==
  /\ Begin(r, [IdleReq EXCEPT !.op = "legacyCreateTool", !.pc = "lt_create"])
  /\ UNCHANGED <<ledgerTables, toolTables, names>>

LegacyCreateTool(r) ==
  /\ req[r].pc = "lt_create"
  /\ tools' = Append(tools, [status |-> "available"])
  /\ Respond(r, "ok")
  /\ UNCHANGED <<ledgerTables, assignments, names, base, started>>

\* POST /api/workers/:workerId/assignTool/:toolId
StartLegacyAssign(r) ==
  \E w \in WorkerInputs, t \in LegacyToolIds :
    /\ Begin(r, [IdleReq EXCEPT !.op = "legacyAssign", !.pc = "lt_assign",
                                !.workerId = w, !.toolId = t])
    /\ UNCHANGED <<ledgerTables, toolTables, names>>

LegacyAssignTool(r) ==
  /\ req[r].pc = "lt_assign"
  /\ LET w == req[r].workerId
         t == req[r].toolId
     IN IF w \notin WorkerIds THEN Respond(r, "worker_not_found") /\ UNCHANGED toolTables
        ELSE IF t \notin DOMAIN tools
        THEN Respond(r, "tool_not_found") /\ UNCHANGED toolTables
        ELSE IF OpenOfTool(t) # {}
        THEN Respond(r, "already_assigned") /\ UNCHANGED toolTables
        ELSE /\ assignments' =
                  Append(IF OpenOfWorker(w) = {} THEN assignments
                         ELSE [assignments EXCEPT ![First(OpenOfWorker(w))].returned = TRUE],
                         [toolId |-> t, workerId |-> w, returned |-> FALSE])
             /\ tools' = [tools EXCEPT ![t].status = "assigned"]
             /\ Respond(r, "ok")
  /\ UNCHANGED <<ledgerTables, names, base, started>>

\* POST /api/workers/:workerId/unassignTool/:toolId
StartLegacyUnassign(r) ==
  \E w \in WorkerInputs, t \in LegacyToolIds :
    /\ Begin(r, [IdleReq EXCEPT !.op = "legacyUnassign", !.pc = "lt_unassign",
                                !.workerId = w, !.toolId = t])
    /\ UNCHANGED <<ledgerTables, toolTables, names>>

LegacyUnassignTool(r) ==
  /\ req[r].pc = "lt_unassign"
  /\ LET w == req[r].workerId
         t == req[r].toolId
         open == OpenOfTool(t) \cap OpenOfWorker(w)
     IN IF w \notin WorkerIds THEN Respond(r, "worker_not_found") /\ UNCHANGED toolTables
        ELSE IF t \notin DOMAIN tools
        THEN Respond(r, "tool_not_found") /\ UNCHANGED toolTables
        ELSE IF open = {}
        THEN Respond(r, "not_assigned") /\ UNCHANGED toolTables
        ELSE /\ assignments' = [assignments EXCEPT ![First(open)].returned = TRUE]
             /\ tools' = [tools EXCEPT ![t].status = "available"]
             /\ Respond(r, "ok")
  /\ UNCHANGED <<ledgerTables, names, base, started>>

\* ------------------------------------------------ initial states
\* The server starts on an empty ledger.  The other initial states are ledgers
\* the handlers above produce from it (each is the ledger the two requests
\* listed leave behind on the empty one):
\*   POST /api/products {quantity: 8}, POST /api/products {quantity: 0};
\*   POST /api/products {quantity: 10}, POST /api/products {quantity: 65530};
\*   POST /api/products {quantity: 20}, POST /api/products/1/adjust {out, 5}.
Row(q) == [exists |-> TRUE, quantity |-> q]
Header(type) == [live |-> TRUE, type |-> type]
Line(t, p, d) == [live |-> TRUE, transactionId |-> t, productId |-> p, delta |-> d]

InitialLedgers ==
  { [products |-> <<>>, transactions |-> <<>>, items |-> <<>>],
    [products |-> <<Row(8), Row(0)>>, transactions |-> <<Header("in")>>,
     items |-> <<Line(1, 1, 8)>>],
    [products |-> <<Row(10), Row(65530)>>,
     transactions |-> <<Header("in"), Header("in")>>,
     items |-> <<Line(1, 1, 10), Line(2, 2, 65530)>>],
    [products |-> <<Row(15)>>, transactions |-> <<Header("in"), Header("out")>>,
     items |-> <<Line(1, 1, 20), Line(2, 1, -5)>>] }

\*   POST /api/tools {totalQuantity: 5};
\*   ... then POST /api/workers/1/assignTool/1 {quantity: 3}.
InitialToolLedgers ==
  { [tools |-> <<>>, assignments |-> <<>>],
    [tools |-> <<[totalQuantity |-> 5, availableQuantity |-> 5]>>,
     assignments |-> <<>>],
    [tools |-> <<[totalQuantity |-> 5, availableQuantity |-> 2]>>,
     assignments |-> <<[toolId |-> 1, workerId |-> 1, quantity |-> 3,
                        returned |-> FALSE]>>] }

\* the names of the rows of ledger l: every product under the name it was
\* created with, every movement without counterparty, one supplier and one
\* location
InitialNames(l) ==
  [product |-> [i \in DOMAIN l.products |-> FirstName(i)],
   supplier |-> [s \in SupplierIds |-> [name |-> FirstName(s), deleted |-> FALSE]],
   location |-> [d \in DestinationIds |-> [name |-> FirstName(d), deleted |-> FALSE]],
   supplierName |-> [t \in DOMAIN l.transactions |-> NoName],
   destinationName |-> [t \in DOMAIN l.transactions |-> NoName],
   supplierId |-> [t \in DOMAIN l.transactions |-> 0],
   destinationId |-> [t \in DOMAIN l.transactions |-> 0],
   productName |-> [i \in DOMAIN l.items |-> FirstName(l.items[i].productId)]]

InitRequests ==
  /\ req = [r \in Requests |-> IdleReq]
  /\ base = Database
  /\ started = 0

Init ==
  /\ \E l \in InitialLedgers :
       /\ products = l.products
       /\ transactions = l.transactions
       /\ items = l.items
       /\ names = InitialNames(l)
  /\ tools = <<>>
  /\ assignments = <<>>
  /\ InitRequests

InitTool ==
  /\ products = <<>>
  /\ transactions = <<>>
  /\ items = <<>>
  /\ names = InitialNames([products |-> <<>>, transactions |-> <<>>, items |-> <<>>])
  /\ \E l \in InitialToolLedgers :
       /\ tools = l.tools
       /\ assignments = l.assignments
  /\ InitRequests

\* ------------------------------------------------ specifications
LedgerStart(r) ==
  \/ StartCreateProduct(r)
  \/ StartMovement(r)
  \/ StartAdjust(r)
  \/ StartAddItem(r)
  \/ StartDeleteItem(r)
  \/ StartEditItem(r)

LedgerStep(r) ==
  \/ CreateProductRow(r)
  \/ CreateProductTransaction(r)
  \/ CreateProductItem(r)
  \/ MovementRead(r)
  \/ MovementUpdate(r)
  \/ MovementCommit(r)
  \/ AddItemRead(r)
  \/ AddItemUpdate(r)
  \/ AddItemCommit(r)
  \/ DeleteItemRead(r)
  \/ DeleteItemUpdate(r)
  \/ DeleteItemCommit(r)
  \/ EditItemRead(r)
  \/ EditItemReload(r)
  \/ EditItemUpdate(r)
  \/ EditItemCommit(r)

ToolStart(r) ==
  \/ StartCreateTool(r)
  \/ StartPatchTool(r)
  \/ StartAssignTool(r)
  \/ StartUnassignTool(r)

ToolStep(r) ==
  \/ CreateToolRow(r)
  \/ PatchToolRead(r)
  \/ PatchToolWrite(r)
  \/ AssignToolCheck(r)
  \/ AssignToolCommit(r)
  \/ UnassignToolCheck(r)
  \/ UnassignToolCommit(r)

\* ledger requests served one at a time
Next == (started < MaxRequests /\ LedgerStart(1)) \/ LedgerStep(1)
Spec == Init /\ [][Next]_vars

\* two ledger requests in flight at once, in every interleaving of their steps
NextConc == \E r \in Requests : (req[r].pc = "idle" /\ LedgerStart(r)) \/ LedgerStep(r)
SpecConc == Init /\ [][NextConc]_vars

\* tool requests served one at a time
NextTool == (started < MaxRequests /\ ToolStart(1)) \/ ToolStep(1)
SpecTool == InitTool /\ [][NextTool]_vars

\* two tool requests in flight at once
NextToolConc == \E r \in Requests : (req[r].pc = "idle" /\ ToolStart(r)) \/ ToolStep(r)
SpecToolConc == InitTool /\ [][NextToolConc]_vars

\* the catalogue (products, suppliers, locations) edited between movements
CatalogStart(r) ==
  \/ StartMovement(r)
  \/ StartDeleteProduct(r)
  \/ StartPatchProduct(r)
  \/ StartPatchSupplier(r)
  \/ StartDeleteSupplier(r)
  \/ StartPatchLocation(r)
  \/ StartDeleteLocation(r)

CatalogStep(r) ==
  \/ MovementRead(r)
  \/ MovementUpdate(r)
  \/ MovementCommit(r)
  \/ DeleteProductRead(r)
  \/ PurgeProduct(r)
  \/ DeleteProductRow(r)
  \/ PatchProduct(r)
  \/ PatchSupplier(r)
  \/ DeleteSupplier(r)
  \/ PatchLocation(r)
  \/ DeleteLocation(r)

NextCatalog == (started < MaxRequests /\ CatalogStart(1)) \/ CatalogStep(1)
SpecCatalog == Init /\ [][NextCatalog]_vars

\* two movement-creation requests of two items each in flight at once; a
\* handler that can take its next step (its row lock is free) is eventually
\* run by the event loop
MovementStep(r) == MovementRead(r) \/ MovementUpdate(r) \/ MovementCommit(r)
NextMoveConc ==
  \E r \in Requests :
    (req[r].pc = "idle" /\ ReceiveMovement(r, TwoItemBodies)) \/ MovementStep(r)
SpecMoveFair ==
  Init /\ [][NextMoveConc]_vars /\ \A r \in Requests : WF_vars(MovementStep(r))

\* ledger requests of authenticated users, served one at a time
NextAuth ==
  \/ /\ started < MaxRequests
     /\ req[1].pc = "done" \/ req[1].user = NoUser
     /\ Authenticate(1)
  \/ req[1].pc = "idle" /\ req[1].user # NoUser /\ AuthorizedStart(1)
  \/ LedgerStep(1)
SpecAuth == Init /\ [][NextAuth]_vars

\* the status-based tool ledger of src/src/server.ts: no tool, two tools on
\* the shelf, or tool 1 out with worker 1
InitialLegacyTools ==
  { [tools |-> <<>>, assignments |-> <<>>],
    [tools |-> <<[status |-> "available"], [status |-> "available"]>>,
     assignments |-> <<>>],
    [tools |-> <<[status |-> "assigned"], [status |-> "available"]>>,
     assignments |-> <<[toolId |-> 1, workerId |-> 1, returned |-> FALSE]>>] }

InitLegacyTool ==
  /\ products = <<>>
  /\ transactions = <<>>
  /\ items = <<>>
  /\ names = InitialNames([products |-> <<>>, transactions |-> <<>>, items |-> <<>>])
  /\ \E l \in InitialLegacyTools :
       /\ tools = l.tools
       /\ assignments = l.assignments
  /\ InitRequests

\* tool requests of src/src/server.ts served one at a time
NextLegacyTool ==
  \/ /\ started < MaxRequests
     /\ \/ StartLegacyCreateTool(1)
        \/ StartLegacyAssign(1)
        \/ StartLegacyUnassign(1)
  \/ LegacyCreateTool(1)
  \/ LegacyAssignTool(1)
  \/ LegacyUnassignTool(1)
SpecLegacyTool == InitLegacyTool /\ [][NextLegacyTool]_vars

\* two adjust requests of src/src/server.ts in flight at once
NextLegacyConc ==
  \E r \in Requests :
    \/ req[r].pc = "idle" /\ StartLegacyAdjust(r)
    \/ LegacyAdjustRead(r)
    \/ LegacyAdjustCommit(r)
SpecLegacyConc == Init /\ [][NextLegacyConc]_vars

\* a client that sends one movement and, after each answer, the same body again
SameInput(a, b) ==
  /\ a.op = b.op
  /\ a.type = b.type
  /\ a.its = b.its
  /\ a.supplierId = b.supplierId
  /\ a.destinationId = b.destinationId
  /\ a.workerId = b.workerId
RepeatsLast == started > 0 => SameInput(req'[1], req[1])
NextRepeat ==
  \/ started < MaxRequests /\ (StartMovement(1) \/ StartAdjust(1)) /\ RepeatsLast
  \/ MovementRead(1)
  \/ MovementUpdate(1)
  \/ MovementCommit(1)
SpecRepeat == Init /\ [][NextRepeat]_vars

\* ================================================================ claims
MovementOps == {"transactions", "bulk", "adjust"}
LedgerOps == MovementOps \cup {"addItem", "editItem", "deleteItem"}
Done(r) == req[r].pc = "done"

\* The movements the claims on stock bounds speak of name an existing product
\* and counterparties that resolve; the others are answered "not found".
PartiesResolve(rec) ==
  /\ SupplierResolves(rec.supplierId)
  /\ DestinationResolves(rec.destinationId)
  /\ WorkerResolves(rec.workerId)

\* the signed net delta request rec asks for on product p
NetDelta(rec, p) ==
  SeqSum([i \in 1..Len(rec.its) |->
            IF rec.its[i].productId # p THEN 0
            ELSE IF rec.type = "out" THEN -rec.its[i].delta ELSE rec.its[i].delta])
Touched(rec) == {rec.its[i].productId : i \in 1..Len(rec.its)}
InBounds(q) == 0 <= q /\ q <= MAX_STOCK
BaseQuantity(p) == base.products[p].quantity
LedgerUnchanged ==
  /\ products = base.products
  /\ transactions = base.transactions
  /\ items = base.items
\* the line items request rec persists under header t
LinesOf(rec, t) ==
  [i \in 1..Len(rec.its) |->
     [live |-> TRUE, transactionId |-> t, productId |-> rec.its[i].productId,
      delta |-> IF rec.type = "out" THEN -rec.its[i].delta ELSE rec.its[i].delta]]

\* C1: in every committed state reached through interleaved product creation,
\* movement creation, line-item add, edit and delete, every product's quantity
\* lies in [0, 65535].
C1_QuantityInRange ==
  \A p \in DOMAIN products : products[p].exists => InBounds(products[p].quantity)

\* two concurrent bulk movements, one committed, the other stopped by the check
\* made after its increment
C1_Witness ==
  /\ Done(1) /\ Done(2)
  /\ req[1].op = "bulk" /\ req[2].op = "bulk"
  /\ req[1].result = "exceeds" /\ req[2].result = "ok"
  /\ \E p \in DOMAIN products : products[p].quantity = MAX_STOCK

\* C2: a ledger operation (movement creation, line-item add, edit, delete)
\* changes a product's quantity by exactly the amount by which it changes the
\* signed sum of that product's live line items.
C2_OperationConserves ==
  req[1].op \in LedgerOps =>
    \A p \in DOMAIN base.products :
      products[p].quantity - BaseQuantity(p)
        = LiveDeltaSum(items, p) - LiveDeltaSum(base.items, p)

\* an edit that changed the item and the quantity
C2_Witness ==
  /\ Done(1) /\ req[1].op = "editItem" /\ req[1].result = "ok"
  /\ \E p \in DOMAIN base.products : products[p].quantity # BaseQuantity(p)

\* C3: when the net delta of one product of a POST /api/transactions or
\* bulk-adjust call would leave [0, 65535], the call persists no header, no line
\* item and no quantity change, also for the products whose increment was applied.
C3_AllOrNothing ==
  (/\ Done(1)
   /\ req[1].op \in {"transactions", "bulk"}
   /\ \E p \in Touched(req[1]) :
        p \in DOMAIN base.products /\ ~InBounds(BaseQuantity(p) + NetDelta(req[1], p)))
  => req[1].result # "ok" /\ LedgerUnchanged

\* a bulk call on two products: the first one's increment was within bounds and
\* applied, the second one's was not
C3_Witness ==
  /\ Done(1) /\ req[1].op = "bulk" /\ req[1].result = "not_enough"
  /\ Touched(req[1]) = {1, 2}
  /\ InBounds(BaseQuantity(1) + NetDelta(req[1], 1))
  /\ ~InBounds(BaseQuantity(2) + NetDelta(req[1], 2))
  /\ LedgerUnchanged

\* C4: two concurrent movement creations that both commit leave every product at
\* its initial quantity plus both net deltas.
C4_NoLostUpdate ==
  (/\ Done(1) /\ Done(2)
   /\ req[1].op \in MovementOps /\ req[2].op \in MovementOps
   /\ req[1].result = "ok" /\ req[2].result = "ok")
  => \A p \in DOMAIN base.products :
       products[p].quantity
         = BaseQuantity(p) + NetDelta(req[1], p) + NetDelta(req[2], p)

\* both committed on the same product
C4_Witness ==
  /\ Done(1) /\ Done(2)
  /\ req[1].op = "transactions" /\ req[2].op = "transactions"
  /\ req[1].result = "ok" /\ req[2].result = "ok"
  /\ \E p \in Touched(req[1]) \cap Touched(req[2]) :
       products[p].quantity = BaseQuantity(p) + NetDelta(req[1], p) + NetDelta(req[2], p)

\* C5: two concurrent outbound movements on product P, each within P's quantity
\* but together above it: exactly one commits, the other is rejected as
\* insufficient stock, and only the committed one's rows and decrement exist.
C5_Case(p) ==
  /\ Done(1) /\ Done(2)
  /\ p \in DOMAIN base.products /\ base.products[p].exists
  /\ \A r \in Requests :
       /\ req[r].op \in MovementOps
       /\ req[r].type = "out"
       /\ PartiesResolve(req[r])
       /\ Touched(req[r]) = {p}
       /\ -NetDelta(req[r], p) <= BaseQuantity(p)
  /\ -NetDelta(req[1], p) - NetDelta(req[2], p) > BaseQuantity(p)

C5_ExactlyOneCommits ==
  \A p \in ProductIds :
    C5_Case(p) =>
      \E w \in Requests :
        LET l == CHOOSE s \in Requests : s # w
        IN /\ req[w].result = "ok"
           /\ req[l].result = "not_enough"
           /\ products[p].quantity = BaseQuantity(p) + NetDelta(req[w], p)
           /\ transactions = Append(base.transactions, [live |-> TRUE, type |-> "out"])
           /\ items = base.items \o LinesOf(req[w], Len(transactions))

\* the request that entered first is the one rejected
C5_Witness ==
  /\ \E p \in ProductIds : C5_Case(p)
  /\ req[1].op = "transactions" /\ req[1].result = "not_enough"
  /\ req[2].result = "ok"

\* C6: a movement that lists one product in several items is checked on the sum
\* of that product's signed deltas; rejected, it changes nothing; accepted, it
\* persists one line item per listed item and changes the quantity by the net delta.
C6_Case ==
  /\ Done(1)
  /\ req[1].op \in {"transactions", "bulk"}
  /\ PartiesResolve(req[1])
  /\ Touched(req[1]) \subseteq {p \in DOMAIN base.products : base.products[p].exists}
  /\ \E i, j \in 1..Len(req[1].its) :
       i # j /\ req[1].its[i].productId = req[1].its[j].productId

C6_NetDeltaChecked ==
  C6_Case =>
    IF \E p \in Touched(req[1]) : ~InBounds(BaseQuantity(p) + NetDelta(req[1], p))
    THEN req[1].result \in {"not_enough", "exceeds"} /\ LedgerUnchanged
    ELSE /\ req[1].result = "ok"
         /\ items = base.items \o LinesOf(req[1], Len(transactions))
         /\ \A p \in DOMAIN base.products :
              products[p].quantity = BaseQuantity(p) + NetDelta(req[1], p)

\* out items [{P,5},{P,5}] against quantity 8: rejected, the quantity stays 8
C6_Witness ==
  /\ C6_Case
  /\ req[1].op = "transactions" /\ req[1].type = "out"
  /\ req[1].its = <<[productId |-> 1, delta |-> 5], [productId |-> 1, delta |-> 5]>>
  /\ BaseQuantity(1) = 8
  /\ req[1].result = "not_enough"
  /\ products[1].quantity = 8

\* C7: for every tool, after tool creation, assign, return and total-quantity
\* edits served one at a time, available + outstanding assigned = total and
\* 0 <= available <= total.
OutstandingOf(t) ==
  SeqSum([a \in 1..Len(assignments) |->
            IF assignments[a].toolId = t /\ ~assignments[a].returned
            THEN assignments[a].quantity ELSE 0])

C7_ToolConservation ==
  \A t \in DOMAIN tools :
    /\ tools[t].availableQuantity + OutstandingOf(t) = tools[t].totalQuantity
    /\ 0 <= tools[t].availableQuantity
    /\ tools[t].availableQuantity <= tools[t].totalQuantity

\* a total-quantity edit on a tool with units issued
C7_Witness ==
  /\ Done(1) /\ req[1].op = "patchTool" /\ req[1].result = "ok"
  /\ OutstandingOf(req[1].toolId) = 3
  /\ tools[req[1].toolId].totalQuantity = 6

\* C8: for concurrent assigns on one tool the committed quantities sum to at most
\* the availability that existed before them: availableQuantity is never negative.
C8_AssignWithinAvailability ==
  (/\ req[1].op = "assignTool" /\ req[2].op = "assignTool")
  => \A t \in DOMAIN tools : tools[t].availableQuantity >= 0

\* C9: concurrent returns against one outstanding assignment of quantity a
\* credit at most a: availableQuantity never exceeds totalQuantity and the
\* assignment's quantity never becomes negative.
C9_ReturnsWithinAssigned ==
  (/\ req[1].op = "unassignTool" /\ req[2].op = "unassignTool")
  => /\ \A t \in DOMAIN tools : tools[t].availableQuantity <= tools[t].totalQuantity
     /\ \A a \in DOMAIN assignments : assignments[a].quantity >= 0
     /\ \A a \in DOMAIN base.assignments :
          LET t == base.assignments[a].toolId
          IN (/\ ~base.assignments[a].returned
              /\ \A r \in Requests : req[r].toolId = t
              /\ \A r \in Requests : req[r].workerId = base.assignments[a].workerId)
             => tools[t].availableQuantity - base.tools[t].availableQuantity
                  <= base.assignments[a].quantity

\* C10: a movement of net delta d on a product of quantity q is accepted exactly
\* when 0 <= q + d <= 65535 and leaves q + d; it is rejected as insufficient
\* stock when q + d < 0 and as ceiling exceeded when q + d > 65535, leaving q.
C10_Case(p) ==
  /\ Done(1)
  /\ req[1].op \in MovementOps
  /\ PartiesResolve(req[1])
  /\ req[1].type \in Types /\ req[1].its # <<>>
  /\ \A i \in 1..Len(req[1].its) : req[1].its[i].delta > 0
  /\ Touched(req[1]) = {p}
  /\ p \in DOMAIN base.products /\ base.products[p].exists

C10_AcceptedIffInBounds ==
  \A p \in ProductIds :
    C10_Case(p) =>
      LET q == BaseQuantity(p)
          d == NetDelta(req[1], p)
      IN IF q + d < 0 THEN req[1].result = "not_enough" /\ products[p].quantity = q
         ELSE IF q + d > MAX_STOCK
         THEN req[1].result = "exceeds" /\ products[p].quantity = q
         ELSE req[1].result = "ok" /\ products[p].quantity = q + d

\* out 10 on quantity 10 succeeds leaving 0
C10_Witness ==
  /\ C10_Case(1)
  /\ BaseQuantity(1) = 10 /\ NetDelta(req[1], 1) = -10
  /\ req[1].result = "ok" /\ products[1].quantity = 0

\* C11: a movement whose input overdraws a product, sent any number of times in
\* a row, is rejected every time as insufficient stock, and after each attempt
\* every quantity, header and line item is as before the first attempt.
C11_Overdraws ==
  /\ req[1].op \in MovementOps
  /\ PartiesResolve(req[1])
  /\ \A p \in Touched(req[1]) :
       /\ p \in DOMAIN base.products /\ base.products[p].exists
       /\ BaseQuantity(p) + NetDelta(req[1], p) <= MAX_STOCK
  /\ \E p \in Touched(req[1]) : BaseQuantity(p) + NetDelta(req[1], p) < 0

\* from an attempt that overdraws, every step (the rest of the attempt, its
\* answer, the next attempt with the same body) keeps the ledger and the
\* snapshot taken before the first attempt, and every answer is "not_enough"
C11_RejectionRepeats ==
  [][C11_Overdraws =>
       /\ C11_Overdraws'
       /\ base' = base
       /\ LedgerUnchanged'
       /\ (Done(1)' => req'[1].result = "not_enough")]_vars

\* the second attempt with the same overdrawing body has been answered
C11_Witness ==
  /\ started = 2 /\ Done(1)
  /\ C11_Overdraws
  /\ req[1].op = "transactions" /\ req[1].result = "not_enough"
  /\ LedgerUnchanged

\* C12: editing a line item's magnitude applies to the product only the
\* difference between the new and the old signed delta, checks current quantity
\* + difference against [0, 65535], and stores the new signed delta on the item
\* (5 to 8 on an out item, quantity 15: quantity 12, item delta -8).
AddressedItemLive(rec) ==
  /\ rec.itemId \in DOMAIN base.items
  /\ base.items[rec.itemId].live
  /\ base.items[rec.itemId].transactionId = rec.txId
  /\ base.items[rec.itemId].productId \in DOMAIN base.products
\* the signed delta an edit asks for: the magnitude with the movement's sign
EditedDelta(rec) ==
  IF base.transactions[rec.txId].type = "out" THEN -rec.qty ELSE rec.qty

C12_Case ==
  /\ Done(1) /\ req[1].op = "editItem"
  /\ AddressedItemLive(req[1])
  /\ req[1].qty > 0

C12_EditAppliesDifference ==
  C12_Case =>
    LET i == req[1].itemId
        p == base.items[i].productId
        diff == EditedDelta(req[1]) - base.items[i].delta
    IN IF InBounds(BaseQuantity(p) + diff)
       THEN /\ req[1].result = "ok"
            /\ products = [base.products EXCEPT ![p].quantity = BaseQuantity(p) + diff]
            /\ items = [base.items EXCEPT ![i].delta = EditedDelta(req[1])]
            /\ transactions = base.transactions
       ELSE req[1].result # "ok" /\ LedgerUnchanged

\* the edit of 5 to 8 on the out item of a product of quantity 15
C12_Witness ==
  /\ C12_Case
  /\ base.items[req[1].itemId].delta = -5 /\ req[1].qty = 8
  /\ BaseQuantity(base.items[req[1].itemId].productId) = 15
  /\ req[1].result = "ok"
  /\ products[base.items[req[1].itemId].productId].quantity = 12
  /\ items[req[1].itemId].delta = -8

\* C13: an edit's bounds check is decided on the quantity inside the edit's
\* unit of work: when a concurrent movement has committed so that current
\* quantity + difference is outside [0, 65535], the edit is rejected and the
\* item's delta and the product's quantity stay as the movement left them.
C13_Case(e, m) ==
  /\ Done(e) /\ Done(m)
  /\ req[e].op = "editItem" /\ AddressedItemLive(req[e]) /\ req[e].qty > 0
  /\ req[m].op \in MovementOps /\ req[m].result = "ok"
  /\ LET p == base.items[req[e].itemId].productId
         diff == EditedDelta(req[e]) - base.items[req[e].itemId].delta
     IN ~InBounds(BaseQuantity(p) + NetDelta(req[m], p) + diff)

C13_EditCheckedAtCommit ==
  \A e, m \in Requests :
    C13_Case(e, m) =>
      LET i == req[e].itemId
          p == base.items[i].productId
      IN /\ req[e].result # "ok"
         /\ items[i] = base.items[i]
         /\ products[p].quantity = BaseQuantity(p) + NetDelta(req[m], p)

\* the edit passed the check on its first read and was stopped inside its
\* unit of work, after the movement had committed
C13_Witness ==
  \E e, m \in Requests :
    /\ C13_Case(e, m)
    /\ req[e].result = "internal"
    /\ InBounds(BaseQuantity(base.items[req[e].itemId].productId)
                + EditedDelta(req[e]) - base.items[req[e].itemId].delta)

\* C14: deleting a line item of stored delta d adds -d to its product's quantity
\* in the unit of work that removes the item; when that would leave [0, 65535]
\* the delete is rejected, the item is still present and the quantity unchanged.
C14_Case ==
  /\ req[1].op = "deleteItem"
  /\ AddressedItemLive(req[1])

C14_DeleteReversesDelta ==
  C14_Case =>
    LET i == req[1].itemId
        p == base.items[i].productId
        q == BaseQuantity(p) - base.items[i].delta
        removed == /\ items = [base.items EXCEPT ![i] = NoItem]
                   /\ products = [base.products EXCEPT ![p].quantity = q]
        untouched == items = base.items /\ products = base.products
    IN /\ removed \/ untouched
       /\ Done(1) => IF InBounds(q)
                     THEN req[1].result = "ok" /\ removed
                     ELSE req[1].result # "ok" /\ untouched

\* the delete of an inbound item whose stock has partly left is rejected
C14_Witness ==
  /\ C14_Case /\ Done(1)
  /\ BaseQuantity(base.items[req[1].itemId].productId) < base.items[req[1].itemId].delta
  /\ req[1].result # "ok"
  /\ items[req[1].itemId].live
  /\ products = base.products

\* C15: when a delete removes the last line item of a movement, the movement's
\* header is removed in the same unit of work and no other header is changed; a
\* movement that still has a line item keeps its header.
LiveItemsOf(t) == {i \in DOMAIN items : items[i].live /\ items[i].transactionId = t}

C15_EmptyHeaderRemoved ==
  (/\ Done(1) /\ req[1].op = "deleteItem" /\ req[1].result = "ok"
   /\ AddressedItemLive(req[1]))
  => /\ Len(transactions) = Len(base.transactions)
     /\ \A t \in DOMAIN transactions :
          IF t = req[1].txId /\ LiveItemsOf(t) = {}
          THEN ~transactions[t].live
          ELSE transactions[t] = base.transactions[t]

\* C16: assignTool with 1 <= quantity <= availableQuantity, a known tool and a
\* known worker creates one outstanding assignment of that quantity and lowers
\* availableQuantity by it; otherwise it is rejected, no assignment is created
\* and availableQuantity is unchanged.
ToolsUnchanged == tools = base.tools /\ assignments = base.assignments

C16_Case == Done(1) /\ req[1].op = "assignTool"

C16_AssignChecked ==
  C16_Case =>
    LET t == req[1].toolId
        n == req[1].qty
    IN IF /\ t \in DOMAIN base.tools
          /\ req[1].workerId \in WorkerIds
          /\ 1 <= n /\ n <= base.tools[t].availableQuantity
       THEN /\ req[1].result = "ok"
            /\ assignments = Append(base.assignments,
                                    [toolId |-> t, workerId |-> req[1].workerId,
                                     quantity |-> n, returned |-> FALSE])
            /\ tools = [base.tools EXCEPT
                          ![t].availableQuantity = base.tools[t].availableQuantity - n]
       ELSE req[1].result # "ok" /\ ToolsUnchanged

\* total 5, 3 assigned, available 2: a further assign of 3 is rejected
C16_Witness ==
  /\ C16_Case
  /\ req[1].toolId \in DOMAIN base.tools
  /\ base.tools[req[1].toolId] = [totalQuantity |-> 5, availableQuantity |-> 2]
  /\ req[1].workerId = 2 /\ req[1].qty = 3
  /\ req[1].result = "not_available"
  /\ tools[req[1].toolId].availableQuantity = 2

\* C17: returnTool on an outstanding assignment of quantity a returns a when no
\* quantity is given; a return of r with 1 <= r < a lowers the assignment to
\* a - r, raises availableQuantity by r and leaves it outstanding; a return of
\* r = a marks it returned and raises availableQuantity by a.
BaseOutstanding(t, w) ==
  {a \in DOMAIN base.assignments :
     /\ base.assignments[a].toolId = t
     /\ base.assignments[a].workerId = w
     /\ ~base.assignments[a].returned}

C17_Case ==
  /\ Done(1) /\ req[1].op = "unassignTool"
  /\ req[1].toolId \in DOMAIN base.tools
  /\ BaseOutstanding(req[1].toolId, req[1].workerId) # {}

\* the quantity a return asks of assignment a: all of it when none is given
Requested(rec, a) ==
  IF rec.rq.given THEN rec.rq.value ELSE base.assignments[a].quantity

C17_ReturnApplied ==
  LET t == req[1].toolId
      out == BaseOutstanding(t, req[1].workerId)
  IN (/\ C17_Case
      /\ \A a \in out : /\ 1 <= Requested(req[1], a)
                         /\ Requested(req[1], a) <= base.assignments[a].quantity)
     => /\ req[1].result = "ok"
        /\ \E a \in out :
             LET qa == base.assignments[a].quantity
                 r == Requested(req[1], a)
             IN /\ tools = [base.tools EXCEPT
                              ![t].availableQuantity = base.tools[t].availableQuantity + r]
                /\ assignments = IF r = qa
                                 THEN [base.assignments EXCEPT ![a].returned = TRUE]
                                 ELSE [base.assignments EXCEPT ![a].quantity = qa - r]

\* a partial return of 2 of 3: the assignment stays outstanding with quantity 1
C17_Witness ==
  /\ C17_Case
  /\ req[1].rq = [given |-> TRUE, value |-> 2]
  /\ req[1].result = "ok"
  /\ \E a \in BaseOutstanding(req[1].toolId, req[1].workerId) :
       /\ base.assignments[a].quantity = 3
       /\ assignments[a].quantity = 1 /\ ~assignments[a].returned
  /\ tools[req[1].toolId].availableQuantity
       = base.tools[req[1].toolId].availableQuantity + 2

\* C18: returnTool is rejected, with no change to any assignment or to
\* availableQuantity, when the (tool, worker) pair has no outstanding
\* assignment and when the requested quantity exceeds the assigned quantity.
C18_Case ==
  /\ Done(1) /\ req[1].op = "unassignTool"
  /\ req[1].toolId \in DOMAIN base.tools
  /\ req[1].workerId \in WorkerIds

C18_ReturnRejected ==
  LET out == BaseOutstanding(req[1].toolId, req[1].workerId)
  IN /\ (C18_Case /\ out = {})
        => req[1].result = "not_assigned" /\ ToolsUnchanged
     /\ (/\ C18_Case /\ out # {}
         /\ req[1].rq.given
         /\ \A a \in out : req[1].rq.value > base.assignments[a].quantity)
        => req[1].result = "exceeds_assigned" /\ ToolsUnchanged

\* a return of more than the pair's outstanding quantity
C18_Witness ==
  /\ C18_Case
  /\ BaseOutstanding(req[1].toolId, req[1].workerId) # {}
  /\ req[1].rq.given
  /\ req[1].result = "exceeds_assigned"
  /\ ToolsUnchanged

\* C19: setToolTotalQuantity(toolId, newTotal), with issued = totalQuantity -
\* availableQuantity before the call: when newTotal < issued it is rejected and
\* the tool is unchanged; otherwise totalQuantity becomes newTotal and
\* availableQuantity becomes newTotal - issued.
C19_Case ==
  /\ Done(1) /\ req[1].op = "patchTool"
  /\ req[1].toolId \in DOMAIN base.tools

BaseIssued(t) == base.tools[t].totalQuantity - base.tools[t].availableQuantity
TotalSet(t, n) ==
  /\ req[1].result = "ok"
  /\ tools = [base.tools EXCEPT
                ![t] = [totalQuantity |-> n, availableQuantity |-> n - BaseIssued(t)]]
  /\ assignments = base.assignments

\* the statement as the claim gives it
C19_AsStated ==
  C19_Case =>
    IF req[1].qty < BaseIssued(req[1].toolId)
    THEN req[1].result # "ok" /\ ToolsUnchanged
    ELSE TotalSet(req[1].toolId, req[1].qty)

\* C19, amended: a newTotal below 1 is rejected as well, whatever is issued;
\* from 1 on, the edit is rejected below the issued count and applied otherwise.
C19_TotalEdit ==
  C19_Case =>
    IF req[1].qty < 1
    THEN req[1].result = "bad_request" /\ ToolsUnchanged
    ELSE IF req[1].qty < BaseIssued(req[1].toolId)
    THEN req[1].result = "below_issued" /\ ToolsUnchanged
    ELSE TotalSet(req[1].toolId, req[1].qty)

\* total 5 with 3 issued: a new total of 2 is rejected
C19_Witness ==
  /\ C19_Case
  /\ base.tools[req[1].toolId] = [totalQuantity |-> 5, availableQuantity |-> 2]
  /\ req[1].qty = 2
  /\ req[1].result = "below_issued"
  /\ ToolsUnchanged

\* C20: a total-quantity edit that runs concurrently with an assign or a return
\* on the same tool preserves tool conservation: after both commit,
\* totalQuantity - availableQuantity is the sum of the quantities of the tool's
\* outstanding assignments.
C20_Case(e, o) ==
  /\ Done(e) /\ Done(o)
  /\ req[e].op = "patchTool" /\ req[e].result = "ok"
  /\ req[o].op \in {"assignTool", "unassignTool"} /\ req[o].result = "ok"
  /\ req[o].toolId = req[e].toolId

C20_EditKeepsConservation ==
  \A e, o \in Requests :
    C20_Case(e, o) =>
      LET t == req[e].toolId
      IN tools[t].totalQuantity - tools[t].availableQuantity = OutstandingOf(t)

\* C21: for every (tool, worker) pair there is at most one assignment with
\* returnedAt = null, after any sequence of assign and return operations.
C21_OneOutstandingPerPair ==
  \A t \in DOMAIN tools, w \in WorkerIds : Cardinality(Outstanding(t, w)) <= 1

\* the products a movement body names that were no product when it arrived
UnknownProducts(rec) ==
  {p \in Touched(rec) : p \notin DOMAIN base.products \/ ~base.products[p].exists}
\* a body with type in or out and a non-empty list of items whose productId
\* and delta are positive integers
WellFormed(rec) ==
  /\ rec.type \in {"in", "out"}
  /\ rec.its # <<>>
  /\ \A i \in 1..Len(rec.its) : rec.its[i].productId >= 1 /\ rec.its[i].delta >= 1

\* C22: every movement-creating entry point (POST /api/transactions, bulk-adjust,
\* POST /api/products/:id/adjust) given a product id that resolves to no product
\* answers product-not-found naming the id and has written no header, no line
\* item and no quantity.
C22_UnknownProductRejected ==
  (/\ Done(1)
   /\ req[1].op \in MovementOps
   /\ WellFormed(req[1])
   /\ UnknownProducts(req[1]) # {})
    => req[1].result = "product_not_found" /\ LedgerUnchanged

\* C23: in every movement-creating entry point each supplied supplierId,
\* destinationId and workerId is resolved; an id that resolves to nothing
\* rejects the call with a not-found error naming the kind (supplier,
\* destination or worker), and nothing is persisted.
C23_UnknownPartyRejected ==
  (/\ Done(1)
   /\ req[1].op \in MovementOps
   /\ WellFormed(req[1])
   /\ UnknownProducts(req[1]) = {}
   /\ ~PartiesResolve(req[1]))
    => /\ LedgerUnchanged
       /\ req[1].result =
            IF ~SupplierResolves(req[1].supplierId) THEN "supplier_not_found"
            ELSE IF ~DestinationResolves(req[1].destinationId)
            THEN "destination_not_found"
            ELSE "worker_not_found"

C25_Case == Done(1) /\ req[1].op \in {"editItem", "deleteItem"}

C25_BadAddressRejected ==
  C25_Case =>
    LET i == req[1].itemId
    IN IF i \notin DOMAIN base.items \/ ~base.items[i].live
       THEN req[1].result = "not_found" /\ LedgerUnchanged
       ELSE base.items[i].transactionId # req[1].txId
              => req[1].result = "wrong_movement" /\ LedgerUnchanged

\* an edit named a live item of another live movement and was turned away
C25_Witness ==
  /\ C25_Case
  /\ req[1].op = "editItem"
  /\ ItemExists(req[1].itemId)
  /\ TransactionExists(req[1].txId)
  /\ items[req[1].itemId].transactionId # req[1].txId
  /\ req[1].result = "wrong_movement"

\* C26: every stored line item of an in movement has delta > 0 and every stored
\* line item of an out movement has delta < 0, after any sequence of movement
\* creation, line-item add and line-item edit: the sign comes from the
\* movement's type, never from the sign of the magnitude supplied.
C26_SignFollowsType ==
  \A i \in DOMAIN items :
    items[i].live =>
      IF transactions[items[i].transactionId].type = "in"
      THEN items[i].delta > 0 ELSE items[i].delta < 0

\* an item of an out movement was edited to magnitude 8 and holds -8
C26_Witness ==
  /\ Done(1) /\ req[1].op = "editItem" /\ req[1].result = "ok"
  /\ req[1].qty = 8
  /\ transactions[req[1].txId].type = "out"
  /\ items[req[1].itemId].delta = -8

\* C30: when an edit and a delete of the same line item run concurrently, the
\* delete takes back the delta the item holds when the delete's unit of work
\* runs, not the one read when the delete request started: once both have
\* finished, the product's quantity less the sum of its live line-item deltas
\* is what it was before the two requests.
C30_Case(e, d) ==
  /\ Done(e) /\ Done(d)
  /\ req[e].op = "editItem" /\ req[e].qty > 0
  /\ req[d].op = "deleteItem"
  /\ req[e].itemId = req[d].itemId
  /\ AddressedItemLive(req[e]) /\ AddressedItemLive(req[d])

C30_DeleteReversesCurrentDelta ==
  \A e, d \in Requests :
    C30_Case(e, d) =>
      LET p == base.items[req[d].itemId].productId
      IN products[p].quantity - LiveDeltaSum(items, p)
           = BaseQuantity(p) - LiveDeltaSum(base.items, p)

\* the live line items movement t held when the request arrived that are of
\* product p, and those of other products
BaseLinesOf(t, p) ==
  {i \in DOMAIN base.items :
     base.items[i].live /\ base.items[i].transactionId = t
       /\ base.items[i].productId = p}
BaseLinesNotOf(t, p) ==
  {i \in DOMAIN base.items :
     base.items[i].live /\ base.items[i].transactionId = t
       /\ base.items[i].productId # p}
ProductKnown(p) == p \in DOMAIN base.products /\ base.products[p].exists

\* C27: a purge (DELETE /api/products/:id?purge=true) removes every line item
\* of the product, every movement header left with no line item by that, and
\* the product; a movement that also holds line items of other products keeps
\* its header and those items, and no other product's quantity changes.
C27_Case ==
  /\ Done(1) /\ req[1].op = "deleteProduct" /\ req[1].purge
  /\ ProductKnown(req[1].productId)

C27_PurgeRemovesOrphans ==
  C27_Case =>
    LET p == req[1].productId
    IN /\ req[1].result = "ok"
       /\ ~products[p].exists
       /\ \A q \in DOMAIN products \ {p} : products[q] = base.products[q]
       /\ \A i \in DOMAIN items :
            IF base.items[i].live /\ base.items[i].productId = p
            THEN ~items[i].live ELSE items[i] = base.items[i]
       /\ \A t \in DOMAIN transactions :
            IF BaseLinesOf(t, p) # {} /\ BaseLinesNotOf(t, p) = {}
            THEN ~transactions[t].live
            ELSE transactions[t] = base.transactions[t]

\* the purge removed one movement whole and took one line item out of a
\* movement that keeps its header and a line item of another product
C27_Witness ==
  /\ C27_Case
  /\ \E t \in DOMAIN transactions :
       base.transactions[t].live /\ ~transactions[t].live
  /\ \E t \in DOMAIN transactions :
       /\ transactions[t].live
       /\ BaseLinesOf(t, req[1].productId) # {}
       /\ \E i \in BaseLinesNotOf(t, req[1].productId) : items[i].live

\* C28: deleting a product without purge is a soft delete: the product row
\* stays stored (flagged deleted) and its movements and line items still
\* reference it; only a purge removes a product row.
C28_DeleteKeepsRow ==
  (/\ Done(1) /\ req[1].op = "deleteProduct" /\ ~req[1].purge
   /\ ProductKnown(req[1].productId))
    => /\ req[1].result = "ok"
       /\ products[req[1].productId].exists
       /\ items = base.items

\* C29: renaming or soft-deleting a supplier or a location leaves the
\* supplierName and destinationName stored on existing movements unchanged,
\* and renaming a product leaves the productName stored on existing line items
\* unchanged.
C29_Case ==
  /\ Done(1)
  /\ req[1].op \in {"patchSupplier", "deleteSupplier", "patchLocation",
                     "deleteLocation", "patchProduct"}

C29_StoredNamesKept ==
  C29_Case =>
    /\ names.supplierName = base.names.supplierName
    /\ names.destinationName = base.names.destinationName
    /\ names.productName = base.names.productName

\* a supplier was renamed after a movement that carries its old name
C29_Witness ==
  /\ C29_Case
  /\ req[1].op = "patchSupplier" /\ req[1].result = "ok"
  /\ \E t \in DOMAIN transactions :
       /\ names.supplierName[t] # NoName
       /\ names.supplierName[t] # names.supplier[req[1].supplierId].name

\* C31: creating a product with initial quantity q > 0 leaves exactly one
\* inbound movement with one line item of delta +q for it (q = 0 leaves none),
\* whether or not a supplierId is given or resolves, so the quantity equals
\* the sum of the product's live line-item deltas right after creation; a
\* failure to record that movement is reported to the caller, not swallowed.
C31_Case ==
  /\ Done(1) /\ req[1].op = "createProduct"
  /\ req[1].qty >= 0 /\ req[1].qty <= MAX_STOCK

C31_InitialMovementRecorded ==
  C31_Case =>
    LET p == Len(base.products) + 1
        lines == {i \in DOMAIN items : items[i].live /\ items[i].productId = p}
    IN req[1].result = "ok" =>
         /\ ProductExists(p)
         /\ products[p].quantity = req[1].qty
         /\ Cardinality(lines) = IF req[1].qty > 0 THEN 1 ELSE 0
         /\ \A i \in lines :
              /\ items[i].delta = req[1].qty
              /\ TransactionExists(items[i].transactionId)
              /\ transactions[items[i].transactionId].type = "in"

\* C32: in the adjust handler of src/src/server.ts the new quantity is decided
\* from the quantity current inside the unit of work: two concurrent
\* adjustments of one product that both commit leave quantity = initial + d1
\* + d2, so no committed adjustment's movement exists without its delta in
\* the quantity.
C32_ConcurrentAdjustsAdd ==
  \A p \in ProductIds :
    (/\ Done(1) /\ Done(2)
     /\ req[1].op = "legacyAdjust" /\ req[2].op = "legacyAdjust"
     /\ req[1].result = "ok" /\ req[2].result = "ok"
     /\ Touched(req[1]) = {p} /\ Touched(req[2]) = {p})
      => products[p].quantity
           = BaseQuantity(p) + NetDelta(req[1], p) + NetDelta(req[2], p)

\* the quantity the line-item request rec would leave, taken on the ledger the
\* request found, lies outside 0..MAX_STOCK
C33_LeavesRange(rec) ==
  CASE rec.op = "deleteItem" ->
         /\ AddressedItemLive(rec)
         /\ LET i == rec.itemId
            IN ~InBounds(BaseQuantity(base.items[i].productId) - base.items[i].delta)
    [] rec.op = "editItem" ->
         /\ AddressedItemLive(rec) /\ rec.qty > 0
         /\ LET i == rec.itemId
            IN ~InBounds(BaseQuantity(base.items[i].productId)
                           + EditedDelta(rec) - base.items[i].delta)
    [] rec.op = "addItem" ->
         /\ rec.txId \in DOMAIN base.transactions
         /\ base.transactions[rec.txId].live
         /\ rec.its[1].productId \in DOMAIN base.products
         /\ base.products[rec.its[1].productId].exists
         /\ rec.its[1].delta > 0
         /\ ~InBounds(BaseQuantity(rec.its[1].productId)
                        + SignedDelta(base.transactions[rec.txId].type,
                                      rec.its[1].delta))
    [] OTHER -> FALSE

\* C33: a line-item delete, edit or add that is rejected because the quantity
\* would leave 0..65535 is answered with an invariant-violation error kind
\* (insufficient stock or ceiling exceeded), never with the generic internal
\* error, also when the violation is found by the check after the increment.
C33_RangeRejectionKind ==
  (Done(1) /\ C33_LeavesRange(req[1]))
    => req[1].result \in {"not_enough", "exceeds"}

\* the ledger rows are those the request found
C34_NoChange ==
  /\ products = base.products
  /\ transactions = base.transactions
  /\ items = base.items

\* C34: every endpoint that changes a quantity or a line item (movement
\* creation, adjust, bulk-adjust, item add, edit and delete) is gated by
\* inventory:transact: a user of role worker whose inventory:transact is false
\* never causes such a change.
C34_TransactGated ==
  (/\ Done(1)
   /\ req[1].user.username # "axelerator"
   /\ req[1].user.role = "worker" /\ req[1].user.transact = "false"
   /\ req[1].op \in {"transactions", "bulk", "adjust",
                     "addItem", "editItem", "deleteItem"})
    => C34_NoChange

\* C35: the transactions export reports for each movement the supplier and
\* destination names stored on it when it was created, so after a supplier or
\* location is renamed the name exported for an earlier movement is unchanged.
C35_ExportKeepsStoredNames ==
  (Done(1) /\ req[1].op \in {"patchSupplier", "patchLocation"})
    => \A t \in DOMAIN base.transactions :
         base.transactions[t].live =>
           /\ ExportedSupplierName(t) = base.names.supplierName[t]
           /\ ExportedDestinationName(t) = base.names.destinationName[t]

\* C36: in the status-based tool ledger of src/src/server.ts, after any
\* sequence of assign and unassign requests executed one at a time, a tool's
\* status is 'assigned' exactly when it has an assignment with returnedAt =
\* null; in particular, when assigning closes the worker's previous
\* outstanding assignment, the tool held before no longer reads 'assigned'.
C36_StatusMatchesAssignments ==
  Quiet =>
    \A t \in DOMAIN tools :
      (tools[t].status = "assigned") <=> (OpenOfTool(t) # {})

\* C37: within one multi-product movement the increments are applied in
\* ascending product-id order whatever the order of the items, so no
\* interleaving of movement-creation requests deadlocks: every request that
\* has started is eventually answered, committed or rejected.
C37_EventuallyAnswered ==
  \A r \in Requests : InFlight(r) ~> Done(r)

\* a request whose items list product 2 before product 1 waits for the row of
\* product 1, which the other request has locked
C37_Witness ==
  \E r \in Requests, o \in Requests :
    /\ r # o
    /\ req[r].pc = "mv_update" /\ Len(req[r].its) = 2
    /\ req[r].its[1].productId = 2 /\ req[r].its[2].productId = 1
    /\ Head(req[r].todo) = 1 /\ 1 \in req[o].locked
    /\ Len(req[o].its) = 2
    /\ req[o].its[1].productId = 1 /\ req[o].its[2].productId = 2

\* C38: returnTool with an explicitly given quantity below 1, 0 included, is
\* rejected and changes nothing; only an omitted quantity means a full return.
C38_ExplicitZeroRejected ==
  (/\ Done(1) /\ req[1].op = "unassignTool"
   /\ req[1].rq.given /\ req[1].rq.value < 1)
    => /\ req[1].result # "ok"
       /\ ToolsUnchanged
====
